---- MODULE Spec2Model ----
(***************************************************************************)
(* Forecast controller of SaleForecast (backend/controllers/               *)
(* forecastController.js, kept as src/unnamed/part_001), its routes        *)
(* (src/backend/routes/forecasts.js) and the Forecast schema               *)
(* (src/unnamed/part_002).                                                 *)
(*                                                                         *)
(* Several state machines share this module.                               *)
(*   ExecSpec    : one invocation of executePythonScript, event by event   *)
(*                 (timers, PythonShell events, promise settlement).       *)
(*   OverlapSpec : two generateForecast requests in flight at once, each   *)
(*                 with its own invocation of executePythonScript.         *)
(*   Spec        : the request handlers, one request (or one batch         *)
(*                 iteration) per step, over the stored Forecast           *)
(*                 collection; ValidationSpec, FitSpec, HistorySpec,       *)
(*                 OutcomeSpec, IsolationSpec and PriceSpec are the same   *)
(*                 handlers over other inputs.                             *)
(*   DatasetSpec : buildForecastDataset and computeInsights applied to     *)
(*                 sequences of sale entries.                              *)
(*   PaySpec     : createCheckoutSession and verifyPayment over the        *)
(*                 Subscription collection (src/unnamed/part_002).         *)
(*   BasketSpec  : the market-basket analysis applied to sequences of      *)
(*                 sales, and the MarketBasket documents it stores.        *)
(* Amounts are whole numbers, chosen so that x * 0.9 and x * 1.1 are       *)
(* whole; the prices that predictPrice computes are exact fractions.       *)
(***************************************************************************)
EXTENDS Integers, Sequences, FiniteSets, TLC

VARIABLES
    attempt,      \* executePythonScript: let attempt = 0
    execPc,       \* where the invocation is: idle, awaiting, backoff, returned, thrown
    runs,         \* one record per attempt started: its promise, timer and PythonShell
    backoffMs,    \* delay of the pending retry wait, 0 when none is pending
    execOutcome,  \* what the invocation returned or threw
    forecasts,    \* the Forecast collection, in order of insertion
    req,          \* the request being answered: [op, user, body]
    response,     \* the answer of the handler, until it is delivered
    trace,        \* what the request has read, run and saved so far
    batch,        \* generateBatchForecasts: products, position, createdForecasts, failures
    calcEntries,  \* the salesEntries given to buildForecastDataset and computeInsights
    calcDataset,  \* what buildForecastDataset returned for them
    calcInsights, \* what computeInsights returned for them
    calcReordered, \* the entries in another order, and what computeInsights returned
    subscriptions, \* the Subscription collection: one document at most per user
    chapa,        \* the payment provider's transactions, in order of initialization
    current,      \* the generation whose callbacks run now; its closure is execVars
    parked,       \* the closure of the other generation, while it waits for an event
    transactions, \* the sales given to the market-basket analysis: one set of items each
    baskets       \* the MarketBasket collection, in order of insertion

execVars == <<attempt, execPc, runs, backoffMs, execOutcome>>

handlerVars == <<forecasts, req, response, trace, batch>>

calcVars == <<calcEntries, calcDataset, calcInsights, calcReordered>>

payVars == <<subscriptions, chapa>>

genVars == <<current, parked>>

basketVars == <<transactions, baskets>>

vars == <<attempt, execPc, runs, backoffMs, execOutcome,
          forecasts, req, response, trace, batch,
          calcEntries, calcDataset, calcInsights, calcReordered,
          subscriptions, chapa, current, parked, transactions, baskets>>

(***************************************************************************)
(* executePythonScript                                                     *)
(***************************************************************************)

\* maxRetries = 3: the default, and the value every caller passes
MaxRetries == 3

\* lines (trimmed) forecast.py may print on stdout that the message handler
\* keeps; any other line is only logged
StdoutLines == {"{result}", "{error}", "{garbled}"}

\* chunks forecast.py may print on stderr
StderrChunks == {"{error}", "warning"}

\* trimmed.startsWith("{") && trimmed.endsWith("}")
IsBraced(line) == line \in {"{result}", "{error}", "{garbled}"}

\* JSON.parse succeeds on the text
ParsesAsJson(text) == text \in {"{result}", "{error}"}

\* the parsed object has a truthy .error
HasErrorKey(text) == text = "{error}"

TimeoutError == "Python script timed out after 30 seconds"
EmptyError == "Empty response from Python script"
InvalidFormatError == "Invalid output format"
ScriptError == "error reported by forecast.py"
ProcessError == "Python error"

NoOutcome == [kind |-> "none", value |-> ""]

NewRun ==
    [ promise     |-> [state |-> "pending", value |-> ""],
      timeout     |-> "armed",
      status      |-> "running",
      output      |-> "",
      errorOutput |-> "" ]

\* errorOutput += stderr + "\n": one chunk alone parses as what it is, two
\* chunks one after the other are no JSON document
AppendStderr(errorOutput, chunk) ==
    IF errorOutput = "" THEN chunk ELSE "warning"

\* shell.on("message"): the last braced line is kept as the output
OnMessageOutput(output, line) ==
    IF IsBraced(line) THEN line ELSE output

\* shell.on("close"): how the handler settles the promise
CloseSettlement(run) ==
    IF run.errorOutput # "" /\ ParsesAsJson(run.errorOutput)
          /\ HasErrorKey(run.errorOutput)
    THEN [state |-> "rejected", value |-> ScriptError]
    ELSE IF run.output = ""
    THEN [state |-> "rejected", value |-> EmptyError]
    ELSE IF ~ParsesAsJson(run.output)
    THEN [state |-> "rejected", value |-> InvalidFormatError]
    ELSE IF HasErrorKey(run.output)
    THEN [state |-> "rejected", value |-> ScriptError]
    ELSE [state |-> "fulfilled", value |-> run.output]

SettleOverwriting(promise, settlement) == settlement

\* resolve / reject of a Promise: only the first call settles it
Settle(promise, settlement) ==
    IF promise.state = "pending" THEN settlement ELSE promise

RetriesNeverExhausted(a) == FALSE

\* if (attempt === maxRetries) throw error
RetriesExhausted(a) == a = MaxRetries

\* while (attempt < maxRetries)
LoopCondition(a) == a < MaxRetries

TimerNeverArmed(run) == [run EXCEPT !.timeout = "unset"]

\* const timeout = setTimeout(() => reject(...), 30000)
ArmTimeout(run) == [run EXCEPT !.timeout = "armed"]

\* clearTimeout(timeout)
ClearTimeout(run) ==
    IF run.timeout = "armed" THEN [run EXCEPT !.timeout = "cleared"] ELSE run

FixedDelay(a) == IF a >= 1 THEN 1000 ELSE 0

\* setTimeout(resolve, 1000 * attempt)
BackoffDelay(a) == 1000 * a

\* the body of the loop up to the await: a new promise, timer and PythonShell
StartAttempt ==
    /\ runs' = Append(runs, ArmTimeout(NewRun))
    /\ execPc' = "awaiting"

\* what follows the await once the promise of the current attempt settles:
\* return result, or the catch block
Continue(settled) ==
    IF settled.state = "fulfilled"
    THEN /\ execPc' = "returned"
         /\ execOutcome' = [kind |-> "return", value |-> settled.value]
         /\ UNCHANGED <<attempt, backoffMs>>
    ELSE /\ attempt' = attempt + 1
         /\ IF RetriesExhausted(attempt + 1)
            THEN /\ execPc' = "thrown"
                 /\ execOutcome' = [kind |-> "throw", value |-> settled.value]
                 /\ backoffMs' = 0
            ELSE /\ execPc' = "backoff"
                 /\ backoffMs' = BackoffDelay(attempt + 1)
                 /\ UNCHANGED execOutcome

\* an event handler of attempt k calls resolve or reject with `settlement`,
\* having left the run as `run`
SettleRun(k, run, settlement) ==
    LET settled == Settle(run.promise, settlement) IN
    /\ runs' = [runs EXCEPT ![k] = [run EXCEPT !.promise = settled]]
    /\ IF settled # run.promise
       THEN Continue(settled)
       ELSE UNCHANGED <<attempt, execPc, backoffMs, execOutcome>>

\* a caller invokes executePythonScript: attempt = 0 and the first pass of the loop
Invoke ==
    /\ execPc = "idle"
    /\ attempt' = 0
    /\ IF LoopCondition(0)
       THEN StartAttempt /\ UNCHANGED <<backoffMs, execOutcome>>
       ELSE /\ execPc' = "returned"
            /\ execOutcome' = [kind |-> "return", value |-> "undefined"]
            /\ UNCHANGED <<runs, backoffMs>>
    /\ UNCHANGED <<handlerVars, calcVars, payVars, genVars, basketVars>>

\* shell.on("message")
OnMessage(k, line) ==
    /\ runs[k].status = "running"
    /\ runs' = [runs EXCEPT ![k].output = OnMessageOutput(@, line)]
    /\ runs' # runs
    /\ UNCHANGED <<attempt, execPc, backoffMs, execOutcome>>
    /\ UNCHANGED <<handlerVars, calcVars, payVars, genVars, basketVars>>

\* shell.on("stderr")
OnStderr(k, chunk) ==
    /\ runs[k].status = "running"
    /\ runs' = [runs EXCEPT ![k].errorOutput = AppendStderr(@, chunk)]
    /\ runs' # runs
    /\ UNCHANGED <<attempt, execPc, backoffMs, execOutcome>>
    /\ UNCHANGED <<handlerVars, calcVars, payVars, genVars, basketVars>>

\* shell.on("close")
OnClose(k) ==
    /\ runs[k].status \in {"running", "errored"}
    /\ LET run == [ClearTimeout(runs[k]) EXCEPT !.status = "closed"]
       IN SettleRun(k, run, CloseSettlement(runs[k]))
    /\ UNCHANGED <<handlerVars, calcVars, payVars, genVars, basketVars>>

\* shell.on("error")
OnError(k) ==
    /\ runs[k].status = "running"
    /\ LET run == [ClearTimeout(runs[k]) EXCEPT !.status = "errored"]
       IN SettleRun(k, run, [state |-> "rejected", value |-> ProcessError])
    /\ UNCHANGED <<handlerVars, calcVars, payVars, genVars, basketVars>>

\* the 30 second timer of attempt k fires
OnTimeout(k) ==
    /\ runs[k].timeout = "armed"
    /\ LET run == [runs[k] EXCEPT !.timeout = "fired"]
       IN SettleRun(k, run, [state |-> "rejected", value |-> TimeoutError])
    /\ UNCHANGED <<handlerVars, calcVars, payVars, genVars, basketVars>>

\* the retry wait ends and the loop condition is tested again
BackoffElapsed ==
    /\ execPc = "backoff"
    /\ backoffMs' = 0
    /\ IF LoopCondition(attempt)
       THEN StartAttempt /\ UNCHANGED <<attempt, execOutcome>>
       ELSE /\ execPc' = "returned"
            /\ execOutcome' = [kind |-> "return", value |-> "undefined"]
            /\ UNCHANGED <<attempt, runs>>
    /\ UNCHANGED <<handlerVars, calcVars, payVars, genVars, basketVars>>

(***************************************************************************)
(* Values as JavaScript sees them.  A value that may be a number, missing  *)
(* or a non-numeric string is a record [t, v]; a string-valued request     *)
(* field is a string, Undefined standing for an absent field.              *)
(***************************************************************************)

Undefined == "undefined"

Num(n) == [t |-> "num", v |-> n]
Missing == [t |-> "undef", v |-> 0]
Text == [t |-> "str", v |-> 0]

\* Number(raw) || default: NaN and 0 are both falsy
NumberOr(raw, default) ==
    IF raw.t = "num" /\ raw.v # 0 THEN raw.v ELSE default

\* Exact fractions for the Numbers that are not whole: [n, d] in lowest
\* terms with d > 0
Abs(x) == IF x < 0 THEN -x ELSE x

RECURSIVE GCD(_, _)
GCD(a, b) == IF b = 0 THEN a ELSE GCD(b, a % b)

Q(n, d) ==
    LET g == GCD(Abs(n), Abs(d))
        sign == IF d < 0 THEN -1 ELSE 1
    IN [n |-> (sign * n) \div g, d |-> (sign * d) \div g]

QAdd(a, b) == Q(a.n * b.d + b.n * a.d, a.d * b.d)
QSub(a, b) == Q(a.n * b.d - b.n * a.d, a.d * b.d)
QMul(a, b) == Q(a.n * b.n, a.d * b.d)
QDiv(a, b) == Q(a.n * b.d, a.d * b.n)
QLt(a, b) == a.n * b.d < b.n * a.d
QMax(a, b) == IF QLt(a, b) THEN b ELSE a

\* a date string of a request: an ISO calendar date (v is its day number), an
\* ISO 8601 string that new Date() does not parse (a week date), another
\* string, or nothing
IsoDate(day) == [t |-> "date", v |-> day]
IsoWeekDate == [t |-> "isoweek", v |-> 0]
NotADate == [t |-> "str", v |-> 0]

\* express-validator isISO8601()
IsISO8601(d) == d.t \in {"date", "isoweek"}

\* isNaN(new Date(d).getTime())
IsInvalidDate(d) == d.t # "date"

\* DAY_IN_MS, with instants counted in hours
HoursPerDay == 24

\* startDate.getFullYear() - 1
DaysPerYear == 365

\* new Date(d): the instant of an ISO calendar date is its UTC midnight
InstantOf(d) == d.v * HoursPerDay

\* toISOString().split("T")[0]: the UTC calendar day of an instant
DateKey(instant) == instant \div HoursPerDay

MIN_SALES_RECORDS == 10

GLOBAL_DATA_ROLES == {"Admin", "Owner"}

\* parseBoolean
parseBoolean(value) ==
    IF value \in {"bool:true", "bool:false"} THEN value = "bool:true"
    ELSE IF value = Undefined THEN FALSE
    ELSE value \in {"true", "TRUE", "True"}

(***************************************************************************)
(* The collections the forecast controller reads: users (req.user, set by  *)
(* the auth middleware), products and sales.                               *)
(***************************************************************************)

Users == {"mgr", "pln", "adm", "own"}

RoleOf(u) ==
    CASE u = "mgr" -> "Manager"
      [] u = "pln" -> "Planner"
      [] u = "adm" -> "Admin"
      [] u = "own" -> "Owner"

ProductIds == <<"p1", "p2", "p3", "p4">>

ProductDoc(p) ==
    CASE p = "p1" -> [id |-> "p1", name |-> "Rice", category |-> "Food"]
      [] p = "p2" -> [id |-> "p2", name |-> "Oil", category |-> "Food"]
      [] p = "p3" -> [id |-> "p3", name |-> "Soap", category |-> ""]
      [] p = "p4" -> [id |-> "p4", name |-> "Broom", category |-> "Home"]

Line(p, q, price, promo) ==
    [productId |-> p, quantity |-> q, price |-> price, promotion |-> promo]

SaleDoc(u, day, hour, items) ==
    [userId |-> u, date |-> day * HoursPerDay + hour, items |-> items]

\* one sale of product p by user u on each day from first to last
DailySales(u, p, first, last) ==
    [i \in 1..(last - first + 1) |->
        SaleDoc(u, first + i - 1, 9,
                <<Line(p, 1 + ((first + i) % 3), 10 + 2 * (i % 2), i = 4)>>)]

\* The Sale collection.  For the Manager: p1 has 10 records on 10 days, p2 has
\* 10 records on 9 days, p3 has 9 records in the year before the start dates
\* and one older, p4 has 11 records on 11 days.  For the Admin: p1 has 12
\* records on 12 days, p2 has 12 records on a single day, and one p1 sale lies
\* after the start dates.  The Owner and the Planner have no sales.
Sales ==
    DailySales("mgr", "p1", 101, 110)
    \o DailySales("mgr", "p4", 201, 211)
    \o DailySales("mgr", "p2", 101, 109)
    \o << SaleDoc("mgr", 101, 20, <<Line("p2", 1, 12, TRUE), Line("p3", 1, 5, FALSE)>>) >>
    \o DailySales("mgr", "p3", 102, 109)
    \o << SaleDoc("mgr", 10, 9, <<Line("p3", 3, 5, FALSE)>>) >>
    \o DailySales("adm", "p1", 101, 112)
    \o [i \in 1..12 |-> SaleDoc("adm", 120, i, <<Line("p2", 2, 11, FALSE)>>)]
    \o << SaleDoc("adm", 500, 9, <<Line("p1", 4, 10, FALSE)>>) >>

RECURSIVE Flatten(_)
Flatten(seqs) ==
    IF seqs = <<>> THEN <<>> ELSE Head(seqs) \o Flatten(Tail(seqs))

\* insert e into a sequence sorted by date, after the entries of equal date
RECURSIVE InsertByDate(_, _)
InsertByDate(sorted, e) ==
    IF sorted = <<>> THEN <<e>>
    ELSE IF Head(sorted).date <= e.date
         THEN <<Head(sorted)>> \o InsertByDate(Tail(sorted), e)
         ELSE <<e>> \o sorted

\* sort({ date: 1 }) / Array.prototype.sort by date
RECURSIVE SortByDate(_)
SortByDate(entries) ==
    IF entries = <<>> THEN <<>>
    ELSE InsertByDate(SortByDate(SubSeq(entries, 1, Len(entries) - 1)),
                      entries[Len(entries)])

\* the $unwind, second $match and $project stages for one sale
UnwoundItems(sale, productId) ==
    LET items == SelectSeq(sale.items, LAMBDA it : it.productId = productId)
    IN [i \in 1..Len(items) |->
           [date |-> sale.date, quantity |-> items[i].quantity,
            price |-> items[i].price, promotion |-> items[i].promotion]]

aggregateProductSales(userId, productId, historyStart, useGlobalSales) ==
    LET matched ==
            SelectSeq(Sales, LAMBDA sale :
                /\ \E i \in 1..Len(sale.items) : sale.items[i].productId = productId
                /\ useGlobalSales \/ sale.userId = userId
                /\ sale.date >= historyStart)
    IN SortByDate(Flatten([i \in 1..Len(matched) |->
                              UnwoundItems(matched[i], productId)]))

OverwriteRevenue(totalAmount, revenue) == revenue

\* acc[dateKey].totalAmount += revenue
AddRevenue(totalAmount, revenue) == totalAmount + revenue

\* the reduce of buildForecastDataset: the buckets in order of first appearance
RECURSIVE DailyBuckets(_)
DailyBuckets(entries) ==
    IF entries = <<>> THEN <<>>
    ELSE LET acc == DailyBuckets(SubSeq(entries, 1, Len(entries) - 1))
             entry == entries[Len(entries)]
             dateKey == DateKey(entry.date)
             revenue == entry.quantity * entry.price
         IN IF \E i \in 1..Len(acc) : acc[i].date = dateKey
            THEN [i \in 1..Len(acc) |->
                    IF acc[i].date = dateKey
                    THEN [date |-> dateKey,
                          totalAmount |-> AddRevenue(acc[i].totalAmount, revenue),
                          promotion |-> acc[i].promotion \/ entry.promotion]
                    ELSE acc[i]]
            ELSE Append(acc, [date |-> dateKey, totalAmount |-> AddRevenue(0, revenue),
                              promotion |-> entry.promotion])

BucketsAsInserted(salesEntries) == DailyBuckets(salesEntries)

buildForecastDataset(salesEntries) == SortByDate(DailyBuckets(salesEntries))

RECURSIVE SumOver(_, _)
SumOver(seq, field) ==
    IF seq = <<>> THEN 0 ELSE field[Head(seq)] + SumOver(Tail(seq), field)

SetMin(S) == CHOOSE x \in S : \A y \in S : x <= y
SetMax(S) == CHOOSE x \in S : \A y \in S : x >= y

\* arr.reduce((sum, val) => sum + val, 0)
RECURSIVE SumOf(_)
SumOf(values) == IF values = <<>> THEN 0 ELSE Head(values) + SumOf(Tail(values))

\* the mean of determineTrend: the sum over (arr.length || 1)
avg(arr) == Q(SumOf(arr), IF Len(arr) = 0 THEN 1 ELSE Len(arr))

GrowthThreshold == Q(5, 100)

TrendOfEnds(values) ==
    IF Len(values) < 3 THEN "Insufficient data"
    ELSE IF values[1] = 0 THEN "Insufficient data"
    ELSE IF values[Len(values)] > values[1] THEN "Rising"
    ELSE IF values[Len(values)] < values[1] THEN "Falling"
    ELSE "Stable"

determineTrend(values) ==
    IF Len(values) < 3 THEN "Insufficient data"
    ELSE LET half == IF Len(values) \div 2 < 1 THEN 1 ELSE Len(values) \div 2
             earlyAvg == avg(SubSeq(values, 1, half))
             lateAvg == avg(SubSeq(values, Len(values) - half + 1, Len(values)))
             delta == QDiv(QSub(lateAvg, earlyAvg), earlyAvg)
         IN IF earlyAvg.n = 0 THEN "Insufficient data"
            ELSE IF QLt(GrowthThreshold, delta) THEN "Rising"
            ELSE IF QLt(delta, Q(-5, 100)) THEN "Falling"
            ELSE "Stable"

\* enriched.map((e) => e.price).filter((price) => price > 0): in input order
PricePoints(salesEntries) ==
    LET positive == SelectSeq(salesEntries, LAMBDA e : e.price > 0)
    IN [i \in 1..Len(positive) |-> positive[i].price]

EveryInstant(salesEntries) ==
    {salesEntries[i].date : i \in 1..Len(salesEntries)}

\* new Set(enriched.map((e) => e.date.toISOString().split("T")[0]))
UniqueDates(salesEntries) ==
    {DateKey(salesEntries[i].date) : i \in 1..Len(salesEntries)}

\* computeInsights: the fields that are whole numbers, and the price trend
computeInsights(salesEntries) ==
    LET idx == 1..Len(salesEntries)
        totalUnits ==
            SumOver(salesEntries, [e \in {salesEntries[i] : i \in idx} |-> e.quantity])
        totalRevenue ==
            SumOver(salesEntries,
                    [e \in {salesEntries[i] : i \in idx} |-> e.quantity * e.price])
        pricePoints == {salesEntries[i].price : i \in {j \in idx : salesEntries[j].price > 0}}
        uniqueDates == UniqueDates(salesEntries)
    IN [ price  |-> [ min |-> IF pricePoints = {} THEN 0 ELSE SetMin(pricePoints),
                      max |-> IF pricePoints = {} THEN 0 ELSE SetMax(pricePoints),
                      trend |-> determineTrend(PricePoints(salesEntries)) ],
         demand |-> [ totalUnits |-> totalUnits,
                      totalRevenue |-> totalRevenue,
                      purchaseCount |-> Cardinality(uniqueDates) ] ]

NoContext == [product |-> [id |-> "", name |-> "", category |-> ""],
              salesData |-> <<>>,
              insights |-> computeInsights(<<>>)]

EnoughWithoutDayCheck(rawSales, salesData) ==
    Len(rawSales) >= MIN_SALES_RECORDS

\* the two checks of prepareForecastContext
EnoughData(rawSales, salesData) ==
    /\ ~(Len(rawSales) < MIN_SALES_RECORDS)
    /\ ~(Len(salesData) < MIN_SALES_RECORDS)

\* prepareForecastContext: [error, reads, value]; error "" when it returns
prepareForecastContext(userId, productId, startDate, useGlobalSales) ==
    IF productId \notin {ProductIds[i] : i \in 1..Len(ProductIds)}
    THEN [error |-> "Product not found", productReads |-> 1, salesReads |-> 0,
          value |-> NoContext]
    ELSE LET historyStart == InstantOf(startDate) - DaysPerYear * HoursPerDay
             rawSales == aggregateProductSales(userId, productId, historyStart,
                                               useGlobalSales)
             salesData == buildForecastDataset(rawSales)
         IN IF ~EnoughData(rawSales, salesData)
            THEN [error |-> IF Len(rawSales) < MIN_SALES_RECORDS
                            THEN "At least 10 sales records are required for this product forecast"
                            ELSE "Not enough distinct sales dates to build a reliable forecast",
                  productReads |-> 1, salesReads |-> 1, value |-> NoContext]
            ELSE [error |-> "", productReads |-> 1, salesReads |-> 1,
                  value |-> [product |-> ProductDoc(productId),
                             salesData |-> salesData,
                             insights |-> computeInsights(rawSales)]]

\* the days the requests of the specifications below give as startDate
StartDays == {400, 430}

\* prepareForecastContext, tabulated once over the arguments the handlers give it
PreparedContexts ==
    [ userId \in Users, productId \in {"p1", "p2", "p3", "p4", "p9"},
      day \in StartDays, useGlobalSales \in BOOLEAN |->
        prepareForecastContext(userId, productId, IsoDate(day), useGlobalSales) ]

Prepared(userId, productId, startDate, useGlobalSales) ==
    PreparedContexts[userId, productId, startDate.v, useGlobalSales]

(***************************************************************************)
(* buildForecastDataset and computeInsights applied to given entries       *)
(***************************************************************************)

NoDataset == [done |-> FALSE, value |-> <<>>]

NoInsights == [done |-> FALSE, value |-> computeInsights(<<>>)]

NoReordered == [done |-> FALSE, entries |-> <<>>, value |-> computeInsights(<<>>)]

CalcIdle ==
    /\ calcEntries = <<>>
    /\ calcDataset = NoDataset
    /\ calcInsights = NoInsights
    /\ calcReordered = NoReordered

\* one entry as Sale.aggregate projects it
Entry(date, quantity, price, promotion) ==
    [date |-> date, quantity |-> quantity, price |-> price, promotion |-> promotion]

\* the entries the sequences are made of: two times of one UTC day, two
\* entries of one instant, a price of 0, days without entries in between
EntryUniverse ==
    { Entry(24, 1, 20, FALSE), Entry(47, 2, 21, TRUE), Entry(48, 1, 30, FALSE),
      Entry(48, 3, 20, FALSE), Entry(120, 2, 0, FALSE), Entry(100, 1, 21, FALSE) }

\* longest sequence of entries
MaxEntries == 4

EntrySequences == UNION { [1..n -> EntryUniverse] : n \in 0..MaxEntries }

\* seq with the entries at positions i and j exchanged
Exchanged(seq, i, j) ==
    [k \in 1..Len(seq) |-> IF k = i THEN seq[j] ELSE IF k = j THEN seq[i] ELSE seq[k]]

BuildDataset ==
    /\ ~calcDataset.done
    /\ calcDataset' = [done |-> TRUE, value |-> buildForecastDataset(calcEntries)]
    /\ UNCHANGED <<calcEntries, calcInsights, calcReordered>>
    /\ UNCHANGED <<execVars, handlerVars, payVars, genVars, basketVars>>

ComputeInsights ==
    /\ ~calcInsights.done
    /\ calcInsights' = [done |-> TRUE, value |-> computeInsights(calcEntries)]
    /\ UNCHANGED <<calcEntries, calcDataset, calcReordered>>
    /\ UNCHANGED <<execVars, handlerVars, payVars, genVars, basketVars>>

\* computeInsights on the same entries with two of them exchanged
ComputeReordered(i, j) ==
    /\ ~calcReordered.done
    /\ i < j
    /\ calcReordered' = [done |-> TRUE,
                         entries |-> Exchanged(calcEntries, i, j),
                         value |-> computeInsights(Exchanged(calcEntries, i, j))]
    /\ UNCHANGED <<calcEntries, calcDataset, calcInsights>>
    /\ UNCHANGED <<execVars, handlerVars, payVars, genVars, basketVars>>

(***************************************************************************)
(* Requests, responses and the results of forecast.py                      *)
(***************************************************************************)

NoBody ==
    [ productId |-> Undefined, forecastPeriod |-> Undefined, modelType |-> Undefined,
      startDate |-> Missing, endDate |-> Missing, useGlobalSales |-> Undefined,
      scope |-> Undefined, category |-> Undefined,
      featureKeys |-> {},
      initialCost |-> Missing, profitMargin |-> Missing,
      page |-> Missing, limit |-> Missing ]

NoRequest == [op |-> "", user |-> "", body |-> NoBody]

\* the price fields of a response that recommends no price
NoPrice ==
    [ given |-> FALSE, recommendedPrice |-> Q(0, 1),
      priceBand |-> [min |-> Q(0, 1), max |-> Q(0, 1)],
      demandRatio |-> Q(0, 1), avgForecastDemand |-> Q(0, 1),
      historicalAvgUnits |-> Q(0, 1) ]

NoResponse ==
    [ status |-> 0, error |-> "", by |-> "",
      totalProducts |-> 0, successfulForecasts |-> 0, failures |-> <<>>,
      created |-> <<>>, price |-> NoPrice,
      listed |-> <<>>, total |-> 0 ]

NoTrace ==
    [ productReads |-> 0, salesReads |-> 0, pythonCalls |-> <<>>, saves |-> 0,
      forecastReads |-> 0, rawRecommendation |-> Q(0, 1) ]

NoBatch == [active |-> FALSE, products |-> <<>>, next |-> 1,
            createdForecasts |-> <<>>, failures |-> <<>>]

HandlerIdle ==
    /\ forecasts = <<>>
    /\ req = NoRequest
    /\ response = NoResponse
    /\ trace = NoTrace
    /\ batch = NoBatch

\* res.status(status).json({ error })
Reply(status, error, by) ==
    [NoResponse EXCEPT !.status = status, !.error = error, !.by = by]

\* one entry of result.predictions as forecast.py printed it
Pred(dateOk, predictedSales, confidenceLevel, confidenceUpper, confidenceLower) ==
    [ dateOk |-> dateOk, predictedSales |-> predictedSales,
      confidenceLevel |-> confidenceLevel,
      confidenceUpper |-> confidenceUpper, confidenceLower |-> confidenceLower ]

\* what executePythonScript hands back: it throws, or returns the parsed JSON
Thrown == [kind |-> "throw", isArray |-> FALSE, predictions |-> <<>>,
           mape |-> Missing, features |-> FALSE]

Result(predictions, mape, features) ==
    [kind |-> "return", isArray |-> TRUE, predictions |-> predictions,
     mape |-> mape, features |-> features]

\* a result without a predictions array
NoPredictions == [Result(<<>>, Num(15), TRUE) EXCEPT !.isArray = FALSE]

GoodPred == Pred(TRUE, Num(10), Num(90), Num(12), Num(8))

GoodResult == Result(<<GoodPred>>, Num(15), TRUE)

(***************************************************************************)
(* Routes: role middleware and express-validator checks                    *)
(***************************************************************************)

\* middleware/role.js: guards routes by role, always allows Owner
RoleAllows(allowed, role) == role \in allowed \/ role = "Owner"

RouteRoles(op) ==
    IF op \in {"retrain", "settings"} THEN {"Admin", "Owner"}
    ELSE {"Manager", "Admin", "Owner"}

Periods == {"Daily", "Weekly", "Monthly"}
Models == {"ARIMA", "RandomForest"}

\* express-validator isBoolean()
IsBooleanInput(v) == v \in {"bool:true", "bool:false", "true", "false", "1", "0"}

\* the checks of the route: the set of fields validationResult(req) reports
RouteErrors(op, body) ==
    (IF op \in {"generate", "retrain"} /\ body.productId = Undefined
        THEN {"productId"} ELSE {})
    \cup (IF op = "retrain" /\ body.forecastPeriod = Undefined THEN {}
          ELSE IF op = "settings" \/ body.forecastPeriod \in Periods THEN {}
          ELSE {"forecastPeriod"})
    \cup (IF op = "retrain" /\ body.modelType = Undefined THEN {}
          ELSE IF op = "settings" \/ body.modelType \in Models THEN {}
          ELSE {"modelType"})
    \cup (IF op = "settings" \/ IsISO8601(body.startDate) THEN {} ELSE {"startDate"})
    \cup (IF op = "settings" \/ IsISO8601(body.endDate) THEN {} ELSE {"endDate"})
    \cup (IF op \in {"generate", "retrain"} /\ body.useGlobalSales # Undefined
             /\ ~IsBooleanInput(body.useGlobalSales)
          THEN {"useGlobalSales"} ELSE {})
    \cup (IF op = "batch" /\ body.scope \notin {Undefined, "all", "category"}
          THEN {"scope"} ELSE {})

(***************************************************************************)
(* generateForecast, retrainForecast                                       *)
(***************************************************************************)

EveryoneMayUseGlobal(op, useGlobalSales, role) == TRUE

\* if (useGlobalSales && !GLOBAL_DATA_ROLES.has(req.user.role)): generateForecast only
GlobalPermitted(op, useGlobalSales, role) ==
    ~(op = "generate" /\ useGlobalSales /\ role \notin GLOBAL_DATA_ROLES)

AnyOrder(start, end) == TRUE

\* if (start >= end) return 400
StartBeforeEnd(start, end) == ~(InstantOf(start) >= InstantOf(end))

\* the checks on dates, period and model shared by the three handlers:
\* the error message, "" when they pass
InputError(forecastPeriod, modelType, startDate, endDate) ==
    IF startDate.t = "undef" \/ endDate.t = "undef"
    THEN "startDate and endDate are required"
    ELSE IF forecastPeriod \notin Periods THEN "Invalid forecast period"
    ELSE IF modelType \notin Models THEN "Invalid model type"
    ELSE IF IsInvalidDate(startDate) \/ IsInvalidDate(endDate)
    THEN "Invalid date format"
    ELSE IF ~StartBeforeEnd(startDate, endDate)
    THEN "startDate must be before endDate"
    ELSE ""

FallbackUpper(predictedSales) == (predictedSales * 11) \div 10
FallbackLower(predictedSales) == (predictedSales * 9) \div 10

\* result.predictions.map(...): one formatted prediction
FormatPrediction(pred) ==
    LET predictedSales == NumberOr(pred.predictedSales, 0)
    IN [ predictedSales  |-> predictedSales,
         confidenceLevel |-> NumberOr(pred.confidenceLevel, 0),
         confidenceUpper |-> NumberOr(pred.confidenceUpper, FallbackUpper(predictedSales)),
         confidenceLower |-> NumberOr(pred.confidenceLower, FallbackLower(predictedSales)) ]

AlertAlways(mape) == TRUE

\* (Number(result.metrics?.mape) || 0) > 20
AlertIsActive(mape) == NumberOr(mape, 0) > 20

\* new Forecast({...})
NewForecast(userId, dataScope, context, result, forecastPeriod, modelType, startDate, endDate) ==
    [ userId         |-> userId,
      dataScope      |-> dataScope,
      product        |-> [ productId |-> context.product.id,
                           name      |-> context.product.name,
                           category  |-> IF context.product.category = ""
                                         THEN "Uncategorized"
                                         ELSE context.product.category ],
      insights       |-> context.insights,
      predictions    |-> [i \in 1..Len(result.predictions) |->
                             FormatPrediction(result.predictions[i])],
      forecastPeriod |-> forecastPeriod,
      modelType      |-> modelType,
      startDate      |-> startDate.v,
      endDate        |-> endDate.v,
      features       |-> [ seasonality   |-> IF result.features THEN "Weekly" ELSE "None",
                           promotion     |-> result.features,
                           laggedSales   |-> IF result.features THEN 7 ELSE 0,
                           economicTrend |-> IF result.features THEN "Growth" ELSE "Stable" ],
      metrics        |-> [ mape |-> NumberOr(result.mape, 0) ],
      alert          |-> [ isActive |-> AlertIsActive(result.mape),
                           message  |-> IF AlertIsActive(result.mape)
                                        THEN "High prediction error" ELSE "" ] ]

\* the validators of forecastSchema that forecast.save() runs
SchemaAccepts(forecast) ==
    /\ \A i \in 1..Len(forecast.predictions) :
          LET pr == forecast.predictions[i] IN
          /\ pr.predictedSales >= 0
          /\ pr.confidenceLevel >= 0 /\ pr.confidenceLevel <= 100
          /\ pr.confidenceUpper >= 0
          /\ pr.confidenceLower >= 0
    /\ forecast.metrics.mape >= 0
    /\ forecast.features.laggedSales >= 0
    /\ forecast.dataScope \in {"user", "global"}
    /\ forecast.forecastPeriod \in Periods
    /\ forecast.modelType \in Models

\* what one fitted product leads to, from the call of executePythonScript to
\* forecast.save(): the error thrown or answered, "" when the forecast is saved
OnlyMissingPredictions(py) == ~py.isArray

\* !Array.isArray(result.predictions) || result.predictions.length === 0
EmptyPredictions(py) == ~py.isArray \/ Len(py.predictions) = 0

SavedBeforeChecks(stored, forecast) == Append(stored, forecast)

\* the collection after a fit that failed: forecast.save() is the last
\* statement before the 201, nothing was saved
FailedFit(stored, forecast) == stored

FitError(forecast, py, dbOk) ==
    IF py.kind = "throw" THEN "All attempts failed"
    ELSE IF EmptyPredictions(py)
    THEN "Invalid forecast predictions"
    ELSE IF \E i \in 1..Len(py.predictions) : ~py.predictions[i].dateOk
    THEN "Invalid prediction date"
    ELSE IF ~SchemaAccepts(forecast) THEN "Forecast validation failed"
    ELSE IF ~dbOk THEN "save failed"
    ELSE ""

\* the body of generateForecast (op = "generate") and retrainForecast
\* (op = "retrain") from validationResult(req) to the response:
\* [response, forecasts, trace]
SingleOutcome(op, r, py, dbOk) ==
    LET b == r.body
        useGlobalSales == parseBoolean(b.useGlobalSales)
        dataScope == IF useGlobalSales THEN "global" ELSE "user"
        forecastPeriod == IF op = "retrain" /\ b.forecastPeriod = Undefined
                          THEN "Monthly" ELSE b.forecastPeriod
        modelType == IF op = "retrain" /\ b.modelType = Undefined
                     THEN "RandomForest" ELSE b.modelType
        inputError == InputError(forecastPeriod, modelType, b.startDate, b.endDate)
        early(status, error) ==
            [response |-> Reply(status, error, "handler"),
             forecasts |-> forecasts, trace |-> NoTrace]
    IN IF RouteErrors(op, b) # {} THEN early(400, "validation errors")
       ELSE IF b.productId = Undefined THEN early(400, "productId is required")
       ELSE IF ~GlobalPermitted(op, useGlobalSales, RoleOf(r.user))
       THEN early(403, "Global forecasts are restricted to Admin/Owner accounts")
       ELSE IF inputError # "" THEN early(400, inputError)
       ELSE
         LET prepared == Prepared(r.user, b.productId, b.startDate, useGlobalSales)
             read == [NoTrace EXCEPT !.productReads = prepared.productReads,
                                     !.salesReads = prepared.salesReads]
         IN IF prepared.error # ""
            THEN [response |-> Reply(500, prepared.error, "handler"),
                  forecasts |-> forecasts, trace |-> read]
            ELSE
              LET forecast == NewForecast(r.user, dataScope, prepared.value, py,
                                          forecastPeriod, modelType,
                                          b.startDate, b.endDate)
                  ran == [read EXCEPT !.pythonCalls =
                             <<[dataPoints |-> Len(prepared.value.salesData),
                                result |-> py]>>]
                  error == FitError(forecast, py, dbOk)
              IN IF error # ""
                 THEN [response |-> Reply(500, error, "handler"),
                       forecasts |-> FailedFit(forecasts, forecast), trace |-> ran]
                 ELSE [response |-> [Reply(201, "", "handler") EXCEPT
                                        !.created = <<forecast>>],
                       forecasts |-> Append(forecasts, forecast),
                       trace |-> [ran EXCEPT !.saves = 1]]

\* a request to POST /generate or POST /retrain, through the role middleware
Single(op, r, py, dbOk) ==
    /\ response = NoResponse
    /\ ~batch.active
    /\ req' = r
    /\ batch' = batch
    /\ IF ~RoleAllows(RouteRoles(op), RoleOf(r.user))
       THEN /\ response' = Reply(403, "Access denied", "role middleware")
            /\ trace' = NoTrace
            /\ forecasts' = forecasts
       ELSE LET out == SingleOutcome(op, r, py, dbOk) IN
            /\ response' = out.response
            /\ trace' = out.trace
            /\ forecasts' = out.forecasts
    /\ UNCHANGED <<execVars, calcVars, payVars, genVars, basketVars>>

generateForecast(r, py, dbOk) == r.op = "generate" /\ Single("generate", r, py, dbOk)

retrainForecast(r, py, dbOk) == r.op = "retrain" /\ Single("retrain", r, py, dbOk)

(***************************************************************************)
(* generateBatchForecasts                                                  *)
(***************************************************************************)

\* the checks of generateBatchForecasts before Product.find
BatchInputError(forecastPeriod, modelType, startDate, endDate, scope, category) ==
    IF startDate.t = "undef" \/ endDate.t = "undef"
    THEN "startDate and endDate are required"
    ELSE IF forecastPeriod \notin Periods THEN "Invalid forecast period"
    ELSE IF modelType \notin Models THEN "Invalid model type"
    ELSE IF scope \notin {"all", "category"} THEN "Invalid scope"
    ELSE IF scope = "category" /\ category = Undefined
    THEN "category is required when scope is 'category'"
    ELSE IF IsInvalidDate(startDate) \/ IsInvalidDate(endDate)
    THEN "Invalid date format"
    ELSE IF ~StartBeforeEnd(startDate, endDate)
    THEN "startDate must be before endDate"
    ELSE ""

\* scope = "all" by default
BatchScope(body) == IF body.scope = Undefined THEN "all" ELSE body.scope

\* Product.find(productQuery)
FindProducts(scope, category) ==
    SelectSeq(ProductIds, LAMBDA p :
        scope # "category" \/ ProductDoc(p).category = category)

\* the products of a batch request that have enough sales for the requester:
\* the most forecasts the request can store
Eligible(r) ==
    LET products == FindProducts(BatchScope(r.body), r.body.category)
    IN IF IsInvalidDate(r.body.startDate) THEN 0
       ELSE Cardinality({i \in 1..Len(products) :
               Prepared(r.user, products[i], r.body.startDate, FALSE).error = ""})

\* generateBatchForecasts up to the loop over the products
BatchStart(r) ==
    /\ r.op = "batch"
    /\ response = NoResponse
    /\ ~batch.active
    /\ req' = r
    /\ forecasts' = forecasts
    /\ LET b == r.body
           scope == BatchScope(b)
           inputError == BatchInputError(b.forecastPeriod, b.modelType,
                                         b.startDate, b.endDate, scope, b.category)
           products == FindProducts(scope, b.category)
       IN IF ~RoleAllows(RouteRoles("batch"), RoleOf(r.user))
          THEN /\ response' = Reply(403, "Access denied", "role middleware")
               /\ UNCHANGED <<trace, batch>>
          ELSE IF RouteErrors("batch", b) # {}
          THEN /\ response' = Reply(400, "validation errors", "handler")
               /\ UNCHANGED <<trace, batch>>
          ELSE IF inputError # ""
          THEN /\ response' = Reply(400, inputError, "handler")
               /\ UNCHANGED <<trace, batch>>
          ELSE IF products = <<>>
          THEN /\ response' = Reply(404, "No products found for forecast", "handler")
               /\ trace' = [trace EXCEPT !.productReads = 1]
               /\ batch' = batch
          ELSE /\ response' = response
               /\ trace' = [trace EXCEPT !.productReads = 1]
               /\ batch' = [active |-> TRUE, products |-> products, next |-> 1,
                            createdForecasts |-> <<>>, failures |-> <<>>]
    /\ UNCHANGED <<execVars, calcVars, payVars, genVars, basketVars>>

\* the message of the error a failed fit throws inside the loop
BatchFitError(forecast, py, dbOk) ==
    IF FitError(forecast, py, dbOk) = "Invalid forecast predictions"
    THEN "Python script returned empty or invalid predictions"
    ELSE FitError(forecast, py, dbOk)

AbortOnFailure(b, failure) == [b EXCEPT !.next = Len(b.products) + 1]

\* the catch block of the loop: the failure is recorded and the loop goes on
RecordFailure(b, failure) ==
    [b EXCEPT !.failures = Append(@, failure), !.next = @ + 1]

\* one pass of the loop of generateBatchForecasts
BatchItem(py, dbOk) ==
    /\ batch.active
    /\ batch.next <= Len(batch.products)
    /\ LET productId == batch.products[batch.next]
           product == ProductDoc(productId)
           b == req.body
           prepared == Prepared(req.user, productId, b.startDate, FALSE)
           read == [trace EXCEPT !.productReads = @ + prepared.productReads,
                                 !.salesReads = @ + prepared.salesReads]
           forecast == NewForecast(req.user, "user", prepared.value, py,
                                   b.forecastPeriod, b.modelType,
                                   b.startDate, b.endDate)
           ran == [read EXCEPT !.pythonCalls =
                      Append(@, [dataPoints |-> Len(prepared.value.salesData),
                                 result |-> py])]
           failure(error) ==
               [productId |-> productId, name |-> product.name,
                category |-> IF product.category = "" THEN "Uncategorized"
                             ELSE product.category,
                error |-> error]
       IN IF prepared.error # ""
          THEN /\ batch' = RecordFailure(batch, failure(prepared.error))
               /\ trace' = read
               /\ forecasts' = forecasts
          ELSE IF FitError(forecast, py, dbOk) # ""
          THEN /\ batch' = RecordFailure(batch, failure(BatchFitError(forecast, py, dbOk)))
               /\ trace' = ran
               /\ forecasts' = forecasts
          ELSE /\ batch' = [batch EXCEPT !.createdForecasts = Append(@, forecast),
                                         !.next = @ + 1]
               /\ trace' = [ran EXCEPT !.saves = @ + 1]
               /\ forecasts' = Append(forecasts, forecast)
    /\ UNCHANGED <<req, response>>
    /\ UNCHANGED <<execVars, calcVars, payVars, genVars, basketVars>>

\* after the loop: res.status(201).json({...})
BatchFinish ==
    /\ batch.active
    /\ batch.next > Len(batch.products)
    /\ response' = [Reply(201, "", "handler") EXCEPT
                       !.totalProducts = Len(batch.products),
                       !.successfulForecasts = Len(batch.createdForecasts),
                       !.failures = batch.failures,
                       !.created = batch.createdForecasts]
    /\ batch' = [batch EXCEPT !.active = FALSE]
    /\ UNCHANGED <<forecasts, req, trace>>
    /\ UNCHANGED <<execVars, calcVars, payVars, genVars, basketVars>>

(***************************************************************************)
(* updateForecastSettings                                                  *)
(***************************************************************************)

validFeatures == {"seasonality", "promotion", "laggedSales", "economicTrend"}

\* the values a settings request gives to the feature keys it names
RequestedFeatures ==
    [seasonality |-> "Monthly", promotion |-> TRUE, laggedSales |-> 3,
     economicTrend |-> "Recession"]

\* { ...forecasts[0].features, ...features }
MergeFeatures(first, keys) ==
    [ seasonality   |-> IF "seasonality" \in keys
                        THEN RequestedFeatures.seasonality ELSE first.seasonality,
      promotion     |-> IF "promotion" \in keys
                        THEN RequestedFeatures.promotion ELSE first.promotion,
      laggedSales   |-> IF "laggedSales" \in keys
                        THEN RequestedFeatures.laggedSales ELSE first.laggedSales,
      economicTrend |-> IF "economicTrend" \in keys
                        THEN RequestedFeatures.economicTrend ELSE first.economicTrend ]

RaiseAlert(forecast, features) ==
    [forecast EXCEPT !.features = features,
                     !.alert = [isActive |-> TRUE, message |-> "Settings changed"]]

\* Forecast.updateMany(..., { $set: { features } }) on one document
SetFeatures(forecast, features) == [forecast EXCEPT !.features = features]

updateForecastSettings(r) ==
    /\ r.op = "settings"
    /\ response = NoResponse
    /\ ~batch.active
    /\ req' = r
    /\ LET mine == SelectSeq(forecasts, LAMBDA f : f.userId = r.user)
           keys == r.body.featureKeys
       IN IF ~RoleAllows(RouteRoles("settings"), RoleOf(r.user))
          THEN /\ response' = Reply(403, "Access denied", "role middleware")
               /\ forecasts' = forecasts
          ELSE IF mine = <<>>
          THEN /\ response' = Reply(404, "No forecasts found", "handler")
               /\ forecasts' = forecasts
          ELSE IF keys \ validFeatures # {}
          THEN /\ response' = Reply(400, "Invalid feature keys", "handler")
               /\ forecasts' = forecasts
          ELSE /\ response' = Reply(200, "", "handler")
               /\ forecasts' =
                    [i \in 1..Len(forecasts) |->
                        IF forecasts[i].userId = r.user
                        THEN SetFeatures(forecasts[i],
                                         MergeFeatures(mine[1].features, keys))
                        ELSE forecasts[i]]
    /\ UNCHANGED <<trace, batch>>
    /\ UNCHANGED <<execVars, calcVars, payVars, genVars, basketVars>>

(***************************************************************************)
(* predictPrice                                                            *)
(***************************************************************************)

\* the checks of POST /predict-price: isMongoId, isFloat({ gt: 0 }),
\* isFloat({ min: 0 })
PriceRouteErrors(body) ==
    (IF body.productId = Undefined THEN {"productId"} ELSE {})
    \cup (IF body.initialCost.t = "num" /\ body.initialCost.v > 0
          THEN {} ELSE {"initialCost"})
    \cup (IF body.profitMargin.t = "num" /\ body.profitMargin.v >= 0
          THEN {} ELSE {"profitMargin"})

\* the checks of the handler on Number(initialCost) and Number(profitMargin):
\* the error message, "" when they pass
PriceInputError(initialCost, profitMargin) ==
    IF ~(initialCost.t = "num") \/ initialCost.v <= 0
    THEN "initialCost must be a positive number"
    ELSE IF ~(profitMargin.t = "num") \/ profitMargin.v < 0
    THEN "profitMargin must be zero or a positive number"
    ELSE ""

FindAnyonesForecast(userId, productId) ==
    SelectSeq(forecasts, LAMBDA f : f.product.productId = productId)

\* Forecast.find({ userId, "product.productId" }) in the order of creation
FindForecasts(userId, productId) ==
    SelectSeq(forecasts, LAMBDA f : f.userId = userId /\ f.product.productId = productId)

\* const clamp = (value, min, max)
clamp(value, min, max) ==
    IF QLt(value, min) THEN min
    ELSE IF QLt(max, value) THEN max
    ELSE value

\* the computation of predictPrice on the forecast found
RecommendPrice(forecast, cost, margin) ==
    LET predictions == forecast.predictions
        avgForecastDemand ==
            Q(SumOf([i \in 1..Len(predictions) |-> predictions[i].predictedSales]),
              Len(predictions))
        demandInsights == forecast.insights.demand
        historicalAvgUnits ==
            IF demandInsights.purchaseCount > 0
            THEN Q(demandInsights.totalUnits, demandInsights.purchaseCount)
            ELSE IF avgForecastDemand.n # 0 THEN avgForecastDemand ELSE Q(1, 1)
        demandRatio ==
            IF QLt(Q(0, 1), historicalAvgUnits)
            THEN QDiv(avgForecastDemand, historicalAvgUnits) ELSE Q(1, 1)
        basePrice == QMul(Q(cost, 1), QAdd(Q(1, 1), Q(margin, 100)))
        adjustmentRatio ==
            clamp(QAdd(Q(1, 1), QMul(QSub(demandRatio, Q(1, 1)), Q(1, 2))),
                  Q(8, 10), Q(12, 10))
        rawRecommendation == QMul(basePrice, adjustmentRatio)
        priceInsights == forecast.insights.price
        minBand ==
            IF priceInsights.min # 0
            THEN QMax(QMul(Q(priceInsights.min, 1), Q(95, 100)),
                      QMul(Q(cost, 1), Q(101, 100)))
            ELSE QMul(Q(cost, 1), Q(105, 100))
        maxBand ==
            IF priceInsights.max # 0
            THEN QMul(Q(priceInsights.max, 1), Q(11, 10))
            ELSE QMul(rawRecommendation, Q(12, 10))
    IN [ rawRecommendation |-> rawRecommendation,
         price |-> [ given |-> TRUE,
                     recommendedPrice |-> clamp(rawRecommendation, minBand, maxBand),
                     priceBand |-> [min |-> minBand, max |-> maxBand],
                     demandRatio |-> demandRatio,
                     avgForecastDemand |-> avgForecastDemand,
                     historicalAvgUnits |-> historicalAvgUnits ] ]

\* the handler behind the role middleware: [response, trace]
PriceOutcome(r) ==
    LET b == r.body
        early(status, error) ==
            [response |-> Reply(status, error, "handler"), trace |-> NoTrace]
        inputError == PriceInputError(b.initialCost, b.profitMargin)
    IN IF PriceRouteErrors(b) # {} THEN early(400, "validation errors")
       ELSE IF inputError # "" THEN early(400, inputError)
       ELSE
         LET found == FindForecasts(r.user, b.productId)
             read == [NoTrace EXCEPT !.forecastReads = 1]
         IN IF found = <<>>
            THEN [response |-> Reply(404, "No forecast found for the selected product",
                                     "handler"),
                  trace |-> read]
            ELSE
              LET forecast == found[Len(found)] IN
              IF forecast.predictions = <<>>
              THEN [response |-> Reply(400, "Forecast does not contain prediction data",
                                       "handler"),
                    trace |-> read]
              ELSE
                LET made == RecommendPrice(forecast, b.initialCost.v, b.profitMargin.v)
                IN [response |-> [Reply(200, "", "handler") EXCEPT !.price = made.price],
                    trace |-> [read EXCEPT !.rawRecommendation = made.rawRecommendation]]

\* a request to POST /predict-price, through the role middleware
predictPrice(r) ==
    /\ r.op = "price"
    /\ response = NoResponse
    /\ ~batch.active
    /\ req' = r
    /\ IF ~RoleAllows(RouteRoles("price"), RoleOf(r.user))
       THEN /\ response' = Reply(403, "Access denied", "role middleware")
            /\ trace' = NoTrace
       ELSE LET out == PriceOutcome(r) IN
            /\ response' = out.response
            /\ trace' = out.trace
    /\ UNCHANGED <<forecasts, batch>>
    /\ UNCHANGED <<execVars, calcVars, payVars, genVars, basketVars>>

(***************************************************************************)
(* listForecasts                                                           *)
(***************************************************************************)

\* mongoose.Types.ObjectId.isValid(productId)
IsObjectId(productId) == productId # "not-an-id"

\* parseInt(page) with the default of the destructuring: 0 stands for NaN,
\* which fails the same test (pageNum < 1) as 0 does
ParsePositive(raw, default) ==
    IF raw.t = "undef" THEN default
    ELSE IF raw.t = "num" THEN raw.v
    ELSE 0

Reverse(seq) == [i \in 1..Len(seq) |-> seq[Len(seq) + 1 - i]]

FindAnyones(userId, forecastPeriod, productId) ==
    SelectSeq(forecasts, LAMBDA f :
        /\ forecastPeriod = Undefined \/ f.forecastPeriod = forecastPeriod
        /\ productId = Undefined \/ f.product.productId = productId)

\* Forecast.find(query) with query = { userId, forecastPeriod?, product.productId? }
FindListed(userId, forecastPeriod, productId) ==
    SelectSeq(forecasts, LAMBDA f :
        /\ f.userId = userId
        /\ forecastPeriod = Undefined \/ f.forecastPeriod = forecastPeriod
        /\ productId = Undefined \/ f.product.productId = productId)

\* .sort({ createdAt: -1 }).skip(skip).limit(limitNum)
PageOf(found, pageNum, limitNum) ==
    LET skip == (pageNum - 1) * limitNum
        last == IF skip + limitNum < Len(found) THEN skip + limitNum ELSE Len(found)
    IN SubSeq(Reverse(found), skip + 1, last)

\* the handler behind the role middleware
ListOutcome(r) ==
    LET b == r.body
        pageNum == ParsePositive(b.page, 1)
        limitNum == ParsePositive(b.limit, 10)
        found == FindListed(r.user, b.forecastPeriod, b.productId)
    IN IF b.forecastPeriod # Undefined /\ b.forecastPeriod \notin Periods
       THEN Reply(400, "Invalid forecast period", "handler")
       ELSE IF b.productId # Undefined /\ ~IsObjectId(b.productId)
       THEN Reply(400, "Invalid productId", "handler")
       ELSE IF pageNum < 1 \/ limitNum < 1
       THEN Reply(400, "Invalid page or limit", "handler")
       ELSE [Reply(200, "", "handler") EXCEPT
                !.listed = PageOf(found, pageNum, limitNum),
                !.total = Len(found)]

\* a request to GET /, through the role middleware
listForecasts(r) ==
    /\ r.op = "list"
    /\ response = NoResponse
    /\ ~batch.active
    /\ req' = r
    /\ response' = IF ~RoleAllows(RouteRoles("list"), RoleOf(r.user))
                   THEN Reply(403, "Access denied", "role middleware")
                   ELSE ListOutcome(r)
    /\ trace' = [NoTrace EXCEPT !.forecastReads =
                    IF response'.status = 200 THEN 1 ELSE 0]
    /\ UNCHANGED <<forecasts, batch>>
    /\ UNCHANGED <<execVars, calcVars, payVars, genVars, basketVars>>

\* the response has been sent: the request is over
Deliver ==
    /\ response # NoResponse
    /\ response' = NoResponse
    /\ req' = NoRequest
    /\ trace' = NoTrace
    /\ UNCHANGED <<forecasts, batch>>
    /\ UNCHANGED <<execVars, calcVars, payVars, genVars, basketVars>>

\* a user without a Subscription document; status and plan are the schema's
\* defaults, which a document created by an upsert takes for the fields it
\* does not set
NoSubscription ==
    [exists |-> FALSE, status |-> "trial", plan |-> "free", currentPeriodStart |-> 0,
     currentPeriodEnd |-> 0, chapaTxRef |-> "", chapaPaymentStatus |-> ""]

\* no Subscription is stored and the provider knows no transaction
PayIdle ==
    /\ subscriptions = [u \in Users |-> NoSubscription]
    /\ chapa = <<>>

\* the closure of a generation that has not called executePythonScript yet
NoClosure ==
    [attempt |-> 0, execPc |-> "idle", runs |-> <<>>, backoffMs |-> 0,
     execOutcome |-> NoOutcome]

NoGeneration ==
    [id |-> 0, productId |-> "", status |-> 0, savedAt |-> 0, closure |-> NoClosure]

\* no sale is given to the market-basket analysis and no result is stored
BasketIdle ==
    /\ transactions = <<>>
    /\ baskets = <<>>

\* no generation overlaps another
GenIdle ==
    /\ current = NoGeneration
    /\ parked = NoGeneration

\* no invocation of executePythonScript has started
ExecIdle ==
    /\ attempt = 0
    /\ execPc = "idle"
    /\ runs = <<>>
    /\ backoffMs = 0
    /\ execOutcome = NoOutcome

ExecInit ==
    /\ ExecIdle
    /\ HandlerIdle
    /\ CalcIdle
    /\ PayIdle
    /\ GenIdle
    /\ BasketIdle

ExecNext ==
    \/ Invoke
    \/ \E k \in 1..Len(runs), line \in StdoutLines : OnMessage(k, line)
    \/ \E k \in 1..Len(runs), chunk \in StderrChunks : OnStderr(k, chunk)
    \/ \E k \in 1..Len(runs) : OnClose(k)
    \/ \E k \in 1..Len(runs) : OnError(k)
    \/ \E k \in 1..Len(runs) : OnTimeout(k)
    \/ BackoffElapsed

ExecSpec == ExecInit /\ [][ExecNext]_vars

\* timers fire: every armed timeout and every retry wait eventually elapses
ExecFairness ==
    /\ WF_vars(BackoffElapsed)
    /\ WF_vars(\E k \in 1..Len(runs) : OnTimeout(k))

ExecLiveSpec == ExecSpec /\ ExecFairness

(***************************************************************************)
(* The request handlers as a state machine.  Three specifications run the  *)
(* same handlers over different families of requests and forecast.py       *)
(* results:                                                                *)
(*   Spec           : well-formed requests of several users and products,  *)
(*                    and the ways a fit can fail;                         *)
(*   ValidationSpec : every combination of well- and ill-formed request    *)
(*                    fields and every role, with a fit that succeeds;     *)
(*   FitSpec        : one user and product, and the numbers a fit returns. *)
(***************************************************************************)

\* most Forecast documents stored in a behaviour of Spec
MaxForecasts == 2

\* most Forecast documents stored in a behaviour of ValidationSpec and FitSpec
MaxStored == 1

SingleRequest(op, user, productId, useGlobalSales, forecastPeriod, modelType, startDate, endDate) ==
    [op |-> op, user |-> user,
     body |-> [NoBody EXCEPT !.productId = productId,
                             !.useGlobalSales = useGlobalSales,
                             !.forecastPeriod = forecastPeriod,
                             !.modelType = modelType,
                             !.startDate = startDate,
                             !.endDate = endDate]]

BatchRequest(user, forecastPeriod, modelType, startDate, endDate, scope, category) ==
    [op |-> "batch", user |-> user,
     body |-> [NoBody EXCEPT !.forecastPeriod = forecastPeriod,
                             !.modelType = modelType,
                             !.startDate = startDate,
                             !.endDate = endDate,
                             !.scope = scope,
                             !.category = category]]

SettingsRequest(user, keys) ==
    [op |-> "settings", user |-> user, body |-> [NoBody EXCEPT !.featureKeys = keys]]

PriceRequest(user, productId, initialCost, profitMargin) ==
    [op |-> "price", user |-> user,
     body |-> [NoBody EXCEPT !.productId = productId,
                             !.initialCost = initialCost,
                             !.profitMargin = profitMargin]]

ListRequest(user, forecastPeriod, productId, page, limit) ==
    [op |-> "list", user |-> user,
     body |-> [NoBody EXCEPT !.forecastPeriod = forecastPeriod,
                             !.productId = productId,
                             !.page = page,
                             !.limit = limit]]

\* the requests are taken one at a time: the next one when the last is answered
Accepting == response = NoResponse /\ ~batch.active

HandlerNext(singles, batches, settings, results, dbOks, cap) ==
    \/ /\ Accepting /\ Len(forecasts) < cap
       /\ \E r \in singles, py \in results, dbOk \in dbOks :
             generateForecast(r, py, dbOk)
    \/ /\ Accepting /\ Len(forecasts) < cap
       /\ \E r \in singles, py \in results, dbOk \in dbOks :
             retrainForecast(r, py, dbOk)
    \/ /\ Accepting /\ Len(forecasts) < cap
       /\ \E r \in batches :
             Len(forecasts) + Eligible(r) <= cap /\ BatchStart(r)
    \/ \E py \in results, dbOk \in dbOks : BatchItem(py, dbOk)
    \/ BatchFinish
    \/ Accepting /\ \E r \in settings : updateForecastSettings(r)
    \/ Deliver

Init == ExecInit

\* ----- Spec
SpecSingles ==
    { SingleRequest(op, u, p, g, "Daily", "ARIMA", IsoDate(400), IsoDate(430)) :
        op \in {"generate", "retrain"}, u \in {"mgr", "adm"},
        p \in {"p1", "p2", "p3", "p4", "p9"}, g \in {Undefined, "bool:true"} }

SpecBatches ==
    { BatchRequest(u, "Daily", "ARIMA", IsoDate(400), IsoDate(430), scope, category) :
        u \in {"mgr", "adm", "pln"}, scope \in {Undefined, "category"},
        category \in {Undefined, "Food", "Toys"} }

SpecSettings ==
    { SettingsRequest(u, keys) :
        u \in {"mgr", "adm"}, keys \in {{"seasonality"}, {"bogus"}} }

\* a fit that succeeds, and the ways it fails: all attempts failed, no
\* predictions array, an empty one, an unparsable prediction date, a negative
\* prediction (refused by the schema)
SpecResults ==
    { GoodResult, Thrown, NoPredictions,
      Result(<<>>, Num(15), TRUE),
      Result(<<GoodPred, [GoodPred EXCEPT !.dateOk = FALSE]>>, Num(15), TRUE),
      Result(<<[GoodPred EXCEPT !.predictedSales = Num(-10)]>>, Num(15), TRUE) }

Next ==
    HandlerNext(SpecSingles, SpecBatches, SpecSettings, SpecResults, BOOLEAN,
                MaxForecasts)

Spec == Init /\ [][Next]_vars

\* ----- ValidationSpec
DateInputs == {Missing, NotADate, IsoWeekDate, IsoDate(400), IsoDate(430)}

ValidationSingles ==
    { SingleRequest(op, u, p, g, period, model, start, end) :
        op \in {"generate", "retrain"}, u \in Users,
        p \in {"p1", Undefined}, g \in {Undefined, "bool:true", "true", "1"},
        period \in {"Daily", "Yearly", Undefined},
        model \in {"ARIMA", "Prophet", Undefined},
        start \in DateInputs \ {NotADate}, end \in DateInputs \ {IsoWeekDate} }

ValidationBatches ==
    { BatchRequest(u, period, model, start, end, scope, category) :
        u \in Users,
        period \in {"Daily", "Yearly", Undefined},
        model \in {"ARIMA", "Prophet", Undefined},
        start \in DateInputs \ {NotADate}, end \in DateInputs \ {IsoWeekDate},
        scope \in {Undefined, "category", "shelf"},
        category \in {Undefined, "Food"} }

ValidationNext ==
    HandlerNext(ValidationSingles, ValidationBatches, SpecSettings, {GoodResult},
                {TRUE}, MaxStored)

ValidationSpec == Init /\ [][ValidationNext]_vars

\* ----- FitSpec
FitSingles ==
    { SingleRequest(op, "adm", "p1", Undefined, "Daily", "ARIMA",
                    IsoDate(400), IsoDate(430)) : op \in {"generate", "retrain"} }

FitBatches ==
    { BatchRequest("adm", "Daily", "ARIMA", IsoDate(400), IsoDate(430),
                   "category", "Food") }

FitSettings ==
    { SettingsRequest("adm", keys) :
        keys \in {{"seasonality"}, {"promotion", "laggedSales"}, {"bogus"}} }

\* the values forecast.py may give a metric
MapeValues == {Missing, Text, Num(-5), Num(0), Num(15), Num(20), Num(21), Num(25)}

\* the predictions forecast.py may return: with or without each bound, with
\* bounds of 0, below or above the point estimate, and negative
FitPredictions ==
    { Pred(TRUE, ps, Num(90), upper, lower) :
        ps \in {Num(10), Missing},
        upper \in {Missing, Text, Num(0), Num(5), Num(15)},
        lower \in {Missing, Num(0), Num(8), Num(12), Num(-1)} }

FitResults ==
    { Result(<<GoodPred>>, mape, features) : mape \in MapeValues, features \in BOOLEAN }
    \cup { Result(<<pred>>, Num(15), TRUE) : pred \in FitPredictions }
    \cup { Result(<<GoodPred, [GoodPred EXCEPT !.confidenceLevel = level]>>,
                  Num(15), TRUE) : level \in {Missing, Num(100), Num(150)} }

FitNext ==
    HandlerNext(FitSingles, FitBatches, FitSettings, FitResults, BOOLEAN, MaxStored)

FitSpec == Init /\ [][FitNext]_vars

\* buildForecastDataset and computeInsights applied to every sequence of at most
\* MaxEntries entries of EntryUniverse
DatasetInit ==
    /\ ExecIdle
    /\ HandlerIdle
    /\ calcEntries \in EntrySequences
    /\ calcDataset = NoDataset
    /\ calcInsights = NoInsights
    /\ calcReordered = NoReordered
    /\ PayIdle
    /\ GenIdle
    /\ BasketIdle

DatasetNext ==
    \/ BuildDataset
    \/ ComputeInsights
    \/ \E i, j \in 1..Len(calcEntries) : ComputeReordered(i, j)

DatasetSpec == DatasetInit /\ [][DatasetNext]_vars

\* ----- HistorySpec
\* the five handlers on one collection: generation, batch and retraining by
\* the Admin, settings and prices asked by the Admin and a Manager
HistorySingles ==
    { SingleRequest(op, "adm", p, Undefined, "Daily", "ARIMA", IsoDate(400), IsoDate(430)) :
        op \in {"generate", "retrain"}, p \in {"p1", "p2"} }

HistorySettings ==
    { SettingsRequest(u, keys) :
        u \in {"mgr", "adm"}, keys \in {{"seasonality"}, {"promotion", "laggedSales"}} }

HistoryResults == {GoodResult, Result(<<GoodPred>>, Num(25), FALSE), Thrown}

\* the price of p1 asked at a cost near and far above the prices of its sales
HistoryPrices ==
    { PriceRequest(u, "p1", Num(cost), Num(20)) : u \in {"mgr", "adm"}, cost \in {10, 100} }

HistoryNext ==
    \/ HandlerNext(HistorySingles, FitBatches, HistorySettings, HistoryResults, BOOLEAN,
                   MaxForecasts)
    \/ Accepting /\ \E r \in HistoryPrices : predictPrice(r)

HistorySpec == Init /\ [][HistoryNext]_vars

\* ----- OutcomeSpec
\* requests that fail in each way a single forecast can fail, and that succeed
OutcomeSingles ==
    { SingleRequest(op, u, p, g, period, "ARIMA", IsoDate(dates[1]), IsoDate(dates[2])) :
        op \in {"generate", "retrain"}, u \in {"mgr", "adm"},
        p \in {"p1", "p2", "p9"}, g \in {Undefined, "bool:true"},
        period \in {"Daily", "Yearly"}, dates \in {<<400, 430>>, <<430, 400>>} }

OutcomeNext ==
    HandlerNext(OutcomeSingles, FitBatches, SpecSettings, SpecResults, BOOLEAN, MaxForecasts)

OutcomeSpec == Init /\ [][OutcomeNext]_vars

\* ----- IsolationSpec
\* three users on one collection: the Admin and the Owner store, list, price
\* and change settings; the Manager stores, lists and prices
IsolationSingles ==
    { SingleRequest(op, ug[1], "p1", ug[2], "Daily", "ARIMA", IsoDate(400), IsoDate(430)) :
        op \in {"generate", "retrain"},
        ug \in {<<"mgr", Undefined>>, <<"adm", Undefined>>, <<"own", "bool:true">>} }

IsolationSettings ==
    { SettingsRequest(u, keys) :
        u \in {"mgr", "adm", "own"}, keys \in {{"seasonality"}, {"bogus"}} }

IsolationResults == {GoodResult, Result(<<[GoodPred EXCEPT !.predictedSales = Num(30)]>>, Num(25), FALSE)}

IsolationPrices ==
    { PriceRequest(u, p, Num(10), Num(20)) : u \in {"mgr", "adm", "own"}, p \in {"p1", "p2"} }

IsolationLists ==
    { ListRequest(u, period, p, page, limit) :
        u \in {"mgr", "adm", "own", "pln"}, period \in {Undefined, "Weekly"},
        p \in {Undefined, "p1"}, page \in {Missing, Num(2)}, limit \in {Missing, Num(1)} }
    \cup { ListRequest("adm", "Yearly", Undefined, Missing, Missing),
           ListRequest("adm", Undefined, "not-an-id", Missing, Missing),
           ListRequest("adm", Undefined, Undefined, Text, Missing),
           ListRequest("adm", Undefined, Undefined, Missing, Num(0)) }

IsolationNext ==
    \/ HandlerNext(IsolationSingles, FitBatches, IsolationSettings, IsolationResults,
                   {TRUE}, MaxForecasts)
    \/ Accepting /\ \E r \in IsolationPrices : predictPrice(r)
    \/ Accepting /\ \E r \in IsolationLists : listForecasts(r)

IsolationSpec == Init /\ [][IsolationNext]_vars

\* ----- PriceSpec
\* the Forecast that generateForecast stores for adm and product p1
StoredByGenerate ==
    NewForecast("adm", "user", Prepared("adm", "p1", IsoDate(400), FALSE).value,
                GoodResult, "Daily", "ARIMA", IsoDate(400), IsoDate(430))

\* predictions as generateForecast formats them, with the given sales
PredictionSeries(sales) ==
    [i \in 1..Len(sales) |-> FormatPrediction([GoodPred EXCEPT !.predictedSales = Num(sales[i])])]

\* the insights of a stored Forecast: computed from the sales of the product,
\* or the defaults of forecastSchema when the document carries none
InsightSnapshots == {StoredByGenerate.insights, computeInsights(<<>>)}

StoredForecasts ==
    { [StoredByGenerate EXCEPT !.userId = u,
                               !.predictions = PredictionSeries(sales),
                               !.insights = ins] :
        u \in {"adm", "mgr"},
        sales \in {<<10>>, <<0>>, <<0, 0>>, <<10, 30>>, <<600>>},
        ins \in InsightSnapshots }

PriceRequests ==
    { PriceRequest(u, p, cost, margin) :
        u \in {"mgr", "adm", "pln"}, p \in {"p1", "p2", Undefined},
        cost \in {Missing, Text, Num(0), Num(-5), Num(10), Num(100)},
        margin \in {Missing, Num(-1), Num(0), Num(20)} }

\* predictPrice against a collection that holds no Forecast or one Forecast
PriceInit ==
    /\ ExecIdle
    /\ CalcIdle
    /\ forecasts \in {<<>>} \cup {<<f>> : f \in StoredForecasts}
    /\ req = NoRequest
    /\ response = NoResponse
    /\ trace = NoTrace
    /\ batch = NoBatch
    /\ PayIdle
    /\ GenIdle
    /\ BasketIdle

PriceNext ==
    \/ Accepting /\ \E r \in PriceRequests : predictPrice(r)
    \/ Deliver

PriceSpec == PriceInit /\ [][PriceNext]_vars

(***************************************************************************)
(* Subscriptions: createCheckoutSession and verifyPayment                  *)
(* (subscriptionController.js, kept in src/unnamed/part_002), with the     *)
(* payment provider as the controller sees it through its two calls.       *)
(* Times are whole days.                                                   *)
(***************************************************************************)

\* at most this many checkout sessions are initialized
MaxCheckouts == 2

\* periodEnd = new Date(now.getTime() + 30 * 24 * 60 * 60 * 1000): 30 days
PeriodDays == 30

\* the users who subscribe
PayUsers == {"mgr", "adm"}

\* the values of Date.now() at which a payment is verified
PayNows == {3, 4}

\* req.body.plan, "premium" when the body names none
PayPlans == {Undefined, "basic"}

\* no transaction reference
NoTxRef == [user |-> "", at |-> 0]

\* const txRef = `sub_${req.user.id}_${Date.now()}`
TxRef(user, now) == [user |-> user, at |-> now]

\* a reference no checkout session was given: the path parameter is free text
ForgedTxRef == TxRef("adm", 0)

\* the references the provider has initialized
IssuedTxRefs == { chapa[k].txRef : k \in 1..Len(chapa) }

\* GET /transaction/verify/:txRef as the provider answers it: the status of
\* the transaction, and no success for a reference it never initialized
ProviderStatus(txRef) ==
    IF \E k \in 1..Len(chapa) : chapa[k].txRef = txRef
    THEN LET k == CHOOSE i \in 1..Len(chapa) : chapa[i].txRef = txRef IN chapa[k].status
    ELSE "unknown"

\* the checkout request of a user
CheckoutRequest(user) == [op |-> "checkout", user |-> user, body |-> NoBody]

\* the verification request of a user
VerifyRequest(user) == [op |-> "verify", user |-> user, body |-> NoBody]

\* Subscription.findOneAndUpdate({ user }, { $set: { plan, chapaTxRef,
\* chapaPaymentStatus: "initialized" } }, { upsert: true })
Initialized(subscription, plan, txRef) ==
    [subscription EXCEPT !.exists = TRUE, !.plan = plan, !.chapaTxRef = txRef,
                         !.chapaPaymentStatus = "initialized"]

\* createCheckoutSession: the provider initializes the transaction and gives a
\* checkout_url (accepted), or gives none
createCheckoutSession(user, plan, accepted) ==
    /\ Len(chapa) < MaxCheckouts
    /\ req' = CheckoutRequest(user)
    /\ LET txRef == TxRef(user, Len(chapa) + 1) IN
       IF ~accepted
       THEN /\ response' = Reply(500, "Failed to initialize payment",
                                 "createCheckoutSession")
            /\ UNCHANGED <<subscriptions, chapa>>
       ELSE /\ chapa' = Append(chapa, [txRef |-> txRef, status |-> "pending"])
            /\ subscriptions' =
                 [subscriptions EXCEPT ![user] =
                    Initialized(@, IF plan = Undefined THEN "premium" ELSE plan, txRef)]
            /\ response' = Reply(200, "", "createCheckoutSession")
    /\ UNCHANGED <<forecasts, trace, batch>>
    /\ UNCHANGED <<execVars, calcVars, genVars, basketVars>>

\* the customer pays, or fails to pay, on the provider's checkout page
Pay(k, status) ==
    /\ chapa[k].status = "pending"
    /\ chapa' = [chapa EXCEPT ![k].status = status]
    /\ UNCHANGED subscriptions
    /\ UNCHANGED <<execVars, handlerVars, calcVars, genVars, basketVars>>

\* Subscription.findOneAndUpdate({ user }, { $set: { chapaPaymentStatus } }):
\* no upsert, a user without a document keeps none
NotPaid(subscription, status) ==
    IF subscription.exists
    THEN [subscription EXCEPT !.chapaPaymentStatus = status]
    ELSE subscription

\* Subscription.findOneAndUpdate({ user }, { $set: { status: "active", plan:
\* "premium", currentPeriodStart, currentPeriodEnd, chapaTxRef,
\* chapaPaymentStatus } }, { upsert: true })
Activated(subscription, txRef, status, now) ==
    [subscription EXCEPT !.exists = TRUE, !.status = "active", !.plan = "premium",
                         !.currentPeriodStart = now,
                         !.currentPeriodEnd = now + PeriodDays,
                         !.chapaTxRef = txRef, !.chapaPaymentStatus = status]

\* verifyPayment: txRef is req.params.txRef, the user is req.user; axios.get
\* resolves with the provider's answer (answered) or throws
verifyPayment(user, txRef, now, answered) ==
    /\ req' = VerifyRequest(user)
    /\ LET status == ProviderStatus(txRef) IN
       IF ~answered
       THEN /\ response' = Reply(500, "Failed to verify payment. Please contact support.",
                                 "verifyPayment")
            /\ UNCHANGED subscriptions
       ELSE IF status # "success"
       THEN /\ subscriptions' = [subscriptions EXCEPT ![user] = NotPaid(@, status)]
            /\ response' = Reply(400, "Payment not successful", "verifyPayment")
       ELSE /\ subscriptions' =
                 [subscriptions EXCEPT ![user] = Activated(@, txRef, status, now)]
            /\ response' = Reply(200, "", "verifyPayment")
    /\ UNCHANGED chapa
    /\ UNCHANGED <<forecasts, trace, batch>>
    /\ UNCHANGED <<execVars, calcVars, genVars, basketVars>>

PayNext ==
    \/ Accepting /\ \E u \in PayUsers, plan \in PayPlans, accepted \in BOOLEAN :
                       createCheckoutSession(u, plan, accepted)
    \/ \E k \in 1..Len(chapa), status \in {"success", "failed"} : Pay(k, status)
    \/ Accepting /\ \E u \in PayUsers, txRef \in IssuedTxRefs \cup {ForgedTxRef},
                       now \in PayNows, answered \in BOOLEAN :
                          verifyPayment(u, txRef, now, answered)
    \/ Deliver

PaySpec == Init /\ [][PayNext]_vars

(***************************************************************************)
(* Two generateForecast requests in flight at once.  Node runs one         *)
(* callback at a time: the exec variables are the closure of the           *)
(* executePythonScript invocation whose callback runs, `parked` keeps the  *)
(* closure of the other invocation until the event loop turns to it.       *)
(***************************************************************************)

\* the products the two requests name: the same one, or two; the Manager has
\* the sales a fit needs for both
OverlapProducts == {<<"p1", "p1">>, <<"p1", "p4">>}

\* the request of a generation: both come from the same Manager
OverlapRequest(productId) ==
    SingleRequest("generate", "mgr", productId, Undefined, "Daily", "ARIMA",
                  IsoDate(400), IsoDate(430))

\* a request that has been received and has not called executePythonScript yet
Generation(id, productId) == [NoGeneration EXCEPT !.id = id, !.productId = productId]

\* the variables executePythonScript declares, as the running invocation has them
Closure ==
    [attempt |-> attempt, execPc |-> execPc, runs |-> runs, backoffMs |-> backoffMs,
     execOutcome |-> execOutcome]

SharedAttempt(closure) == attempt

\* let attempt = 0 is declared inside executePythonScript: the invocation that
\* resumes finds its own counter
ResumedAttempt(closure) == closure.attempt

\* the event loop turns from a callback of one invocation to a callback of
\* the other
Yield ==
    /\ parked.id # 0
    /\ current' = [parked EXCEPT !.closure = NoClosure]
    /\ parked' = [current EXCEPT !.closure = Closure]
    /\ attempt' = ResumedAttempt(parked.closure)
    /\ execPc' = parked.closure.execPc
    /\ runs' = parked.closure.runs
    /\ backoffMs' = parked.closure.backoffMs
    /\ execOutcome' = parked.closure.execOutcome
    /\ UNCHANGED <<handlerVars, calcVars, payVars, basketVars>>

\* generateForecast after executePythonScript returned: the result is parsed,
\* checked, formatted and saved as a new Forecast, and 201 is sent
Persist ==
    /\ current.id # 0 /\ current.status = 0
    /\ execPc = "returned"
    /\ LET out == SingleOutcome("generate", OverlapRequest(current.productId),
                                GoodResult, TRUE)
       IN /\ forecasts' = out.forecasts
          /\ current' = [current EXCEPT !.status = out.response.status,
                                        !.savedAt = Len(out.forecasts)]
    /\ UNCHANGED <<req, response, trace, batch, parked>>
    /\ UNCHANGED <<execVars, calcVars, payVars, basketVars>>

\* generateForecast when executePythonScript threw: the catch block sends 500
\* and nothing is saved
Fail ==
    /\ current.id # 0 /\ current.status = 0
    /\ execPc = "thrown"
    /\ current' = [current EXCEPT !.status = 500]
    /\ UNCHANGED <<handlerVars, parked>>
    /\ UNCHANGED <<execVars, calcVars, payVars, basketVars>>

OverlapInit ==
    /\ ExecIdle
    /\ HandlerIdle
    /\ CalcIdle
    /\ PayIdle
    /\ BasketIdle
    /\ \E pq \in OverlapProducts :
          /\ current = Generation(1, pq[1])
          /\ parked = Generation(2, pq[2])

\* the events of the attempt an invocation awaits; the late events of its
\* earlier attempts are left to ExecSpec
OverlapNext ==
    \/ Invoke
    \/ execPc = "awaiting" /\ OnMessage(Len(runs), "{result}")
    \/ execPc = "awaiting" /\ OnClose(Len(runs))
    \/ execPc = "awaiting" /\ OnTimeout(Len(runs))
    \/ BackoffElapsed
    \/ Yield
    \/ Persist
    \/ Fail

OverlapSpec == OverlapInit /\ [][OverlapNext]_vars

(***************************************************************************)
(* Market-basket analysis.  marketBasketController.js and                  *)
(* scripts/marketBasket.py are not among the sources kept; the mining is   *)
(* written from the description of the Market-Basket Engine, the stored    *)
(* document from marketBasketSchema (src/unnamed/part_002).  Supports,     *)
(* confidences and lifts are exact fractions.                              *)
(***************************************************************************)

\* at most this many sales are analysed
MaxTransactions == 3

\* at most this many results are stored
MaxBaskets == 1

\* the products that are sold
BasketItems == {"p1", "p2", "p3"}

\* the items of one sale
Baskets == SUBSET BasketItems \ {{}}

RECURSIVE SequencesUpTo(_, _)
\* the sequences of at most n elements of a set
SequencesUpTo(set, n) ==
    IF n = 0 THEN {<<>>}
    ELSE LET shorter == SequencesUpTo(set, n - 1)
         IN shorter \cup { Append(seq, x) : seq \in {t \in shorter : Len(t) = n - 1}, x \in set }

\* minSupport: the default 0.01 of the schema, or one half
SupportThresholds == {Q(1, 100), Q(1, 2)}

\* minConfidence: the default 0.5 of the schema, or certainty
ConfidenceThresholds == {Q(1, 2), Q(1, 1)}

\* a >= b for fractions
QGe(a, b) == ~QLt(a, b)

\* support: (count of transactions containing all the items) / (total count)
Support(sales, items) ==
    Q(Cardinality({k \in 1..Len(sales) : items \subseteq sales[k]}), Len(sales))

\* the itemsets whose support is at least minSupport; none for no transaction
FrequentItemsets(sales, minSupport) ==
    IF Len(sales) = 0 THEN {}
    ELSE { items \in Baskets : QGe(Support(sales, items), minSupport) }

\* the consequent of a rule: the complement of the antecedent in the itemset
Complement(itemset, antecedent) == itemset \ antecedent

SupportOverTotal(sales, itemset, antecedent) == Support(sales, itemset)

\* confidence = support(itemset) / support(antecedent)
Confidence(sales, itemset, antecedent) ==
    QDiv(Support(sales, itemset), Support(sales, antecedent))

\* one rule of an itemset, as it is stored
Rule(sales, itemset, antecedent) ==
    LET consequent == Complement(itemset, antecedent)
        confidence == Confidence(sales, itemset, antecedent)
    IN [ antecedents |-> antecedent,
         consequents |-> consequent,
         confidence  |-> confidence,
         lift        |-> QDiv(confidence, Support(sales, consequent)),
         support     |-> Support(sales, itemset) ]

\* the rules of the frequent itemsets of size 2 and more, one for each
\* non-empty proper subset as antecedent, kept when confidence >= minConfidence
AssociationRules(sales, minSupport, minConfidence) ==
    LET candidates ==
            UNION { { Rule(sales, itemset, antecedent) :
                        antecedent \in (SUBSET itemset) \ {{}, itemset} } :
                    itemset \in { s \in FrequentItemsets(sales, minSupport) :
                                    Cardinality(s) >= 2 } }
    IN { rule \in candidates : QGe(rule.confidence, minConfidence) }

\* the MarketBasket document of one analysis
MarketBasketResult(sales, minSupport, minConfidence) ==
    [ minSupport    |-> minSupport,
      minConfidence |-> minConfidence,
      itemsets      |-> { [items |-> items, support |-> Support(sales, items)] :
                            items \in FrequentItemsets(sales, minSupport) },
      rules         |-> AssociationRules(sales, minSupport, minConfidence) ]

\* one analysis is run over the sales and its result is stored
RunMarketBasket(minSupport, minConfidence) ==
    /\ Len(baskets) < MaxBaskets
    /\ baskets' = Append(baskets, MarketBasketResult(transactions, minSupport, minConfidence))
    /\ UNCHANGED transactions
    /\ UNCHANGED <<execVars, handlerVars, calcVars, payVars, genVars>>

BasketInit ==
    /\ ExecIdle
    /\ HandlerIdle
    /\ CalcIdle
    /\ PayIdle
    /\ GenIdle
    /\ transactions \in SequencesUpTo(Baskets, MaxTransactions)
    /\ baskets = <<>>

BasketNext ==
    \E minSupport \in SupportThresholds, minConfidence \in ConfidenceThresholds :
        RunMarketBasket(minSupport, minConfidence)

BasketSpec == BasketInit /\ [][BasketNext]_vars

(***************************************************************************)
(* Claims about executePythonScript                                        *)
(***************************************************************************)

ExecDone == execPc \in {"returned", "thrown"}

\* C1: an invocation starts at most 3 attempts; a fulfilled attempt is the
\* last one started and ends the invocation at once with that attempt's
\* result; the invocation throws only when 3 attempts were started and all
\* were rejected, and it throws the error of the 3rd.
C1_BoundedRetries ==
    /\ Len(runs) <= 3
    /\ \A k \in 1..Len(runs) :
          runs[k].promise.state = "fulfilled"
             => /\ k = Len(runs)
                /\ execPc = "returned"
                /\ execOutcome = [kind |-> "return", value |-> runs[k].promise.value]
    /\ execPc = "returned"
          => /\ Len(runs) >= 1
             /\ runs[Len(runs)].promise.state = "fulfilled"
             /\ \A j \in 1..(Len(runs) - 1) : runs[j].promise.state = "rejected"
    /\ execPc = "thrown"
          => /\ Len(runs) = 3
             /\ attempt = 3
             /\ \A j \in 1..3 : runs[j].promise.state = "rejected"
             /\ execOutcome = [kind |-> "throw", value |-> runs[3].promise.value]
    /\ ~ExecDone => execOutcome = NoOutcome

\* three failed attempts whose errors differ: the invocation threw
C1_Witness ==
    /\ execPc = "thrown"
    /\ runs[1].promise.value = TimeoutError
    /\ runs[2].promise.value = EmptyError
    /\ runs[3].promise.value = ScriptError

\* C4: the 30 second timer of a still pending attempt rejects it with the
\* timeout error and counts one failed attempt, followed by the retry wait or,
\* at the 3rd failure, the throw; whatever a timed-out attempt's process does
\* afterwards changes neither that attempt's settlement nor the attempt
\* count, the position or the outcome of the invocation.
C4_TimeoutIsOneFailure ==
    [][ \A k \in 1..Len(runs) :
          /\ ( /\ runs[k].timeout = "armed"
               /\ runs'[k].timeout = "fired"
               /\ runs[k].promise.state = "pending" )
                => /\ attempt' = attempt + 1
                   /\ runs'[k].promise = [state |-> "rejected", value |-> TimeoutError]
                   /\ execPc' = IF attempt' = 3 THEN "thrown" ELSE "backoff"
          /\ runs[k].timeout = "fired"
                => /\ runs'[k].promise = runs[k].promise
                   /\ runs'[k] # runs[k]
                         => UNCHANGED <<attempt, execPc, backoffMs, execOutcome>>
      ]_vars

\* an attempt timed out, and its process later printed a result and closed
C4_Witness ==
    \E k \in 1..Len(runs) :
        /\ runs[k].timeout = "fired"
        /\ runs[k].status = "closed"
        /\ runs[k].output = "{result}"
        /\ runs[k].errorOutput = ""
        /\ runs[k].promise = [state |-> "rejected", value |-> TimeoutError]

\* C5: with timers firing, every invocation ends by returning or throwing
C5_Terminates == (execPc # "idle") ~> ExecDone

\* the invocation ended although no process ever printed or exited
C5_Witness ==
    /\ execPc = "thrown"
    /\ \A k \in 1..3 :
          /\ runs[k].status = "running"
          /\ runs[k].output = ""
          /\ runs[k].errorOutput = ""

(***************************************************************************)
(* Claims about the batch run and the data a fit needs                     *)
(***************************************************************************)

TooFewRecords == "At least 10 sales records are required for this product forecast"
TooFewDays == "Not enough distinct sales dates to build a reliable forecast"

\* the products among the first n selected ones that a list of forecasts or
\* of failures names
CreatedIds(created) == {created[j].product.productId : j \in 1..Len(created)}
FailedIds(failures) == {failures[j].productId : j \in 1..Len(failures)}

\* every one of the first n selected products is in exactly one of the lists,
\* and the lists hold nothing else
SplitsProducts(products, n, created, failures) ==
    /\ Len(created) + Len(failures) = n
    /\ CreatedIds(created) \cap FailedIds(failures) = {}
    /\ CreatedIds(created) \cup FailedIds(failures) = {products[i] : i \in 1..n}
    /\ Cardinality(CreatedIds(created)) = Len(created)
    /\ Cardinality(FailedIds(failures)) = Len(failures)

\* C2: once a batch request has passed validation and selected products, no
\* failure of one product ends the run: while the loop runs no response is
\* sent and the products passed so far are split between the created
\* forecasts and the failures; the only response is the 201 sent after the
\* last product, with successfulForecasts + |failures| = totalProducts and
\* every selected product in exactly one of the two lists.
C2_BatchIsolatesFailures ==
    /\ [] ( /\ batch.active
               => /\ response = NoResponse
                  /\ batch.next <= Len(batch.products) + 1
                  /\ SplitsProducts(batch.products, batch.next - 1,
                                    batch.createdForecasts, batch.failures)
            /\ (req.op = "batch" /\ response.status = 201)
               => /\ response.totalProducts = Len(batch.products)
                  /\ response.successfulForecasts = Len(response.created)
                  /\ response.successfulForecasts + Len(response.failures)
                        = response.totalProducts
                  /\ SplitsProducts(batch.products, Len(batch.products),
                                    response.created, response.failures) )
    /\ [][ batch.active
             => \/ response' = NoResponse /\ batch'.active
                \/ /\ batch.next = Len(batch.products) + 1
                   /\ response'.status = 201 ]_vars

\* a batch over four products answered with one forecast and three failures:
\* too few records, too few days and a failed save
C2_Witness ==
    /\ req.op = "batch"
    /\ response.status = 201
    /\ response.totalProducts = 4
    /\ response.successfulForecasts = 1
    /\ Len(response.failures) = 3
    /\ \E j \in 1..3 : response.failures[j].error = TooFewRecords
    /\ \E j \in 1..3 : response.failures[j].error = TooFewDays
    /\ \E j \in 1..3 : response.failures[j].error = "save failed"

\* the line items of a product in the sales of a user (of all users when
\* global) from one year before the start day on: <<sale, item>> positions
WindowItems(userId, productId, startDay, useGlobalSales) ==
    { <<i, j>> \in (1..Len(Sales)) \X (1..2) :
        /\ j <= Len(Sales[i].items)
        /\ Sales[i].items[j].productId = productId
        /\ useGlobalSales \/ Sales[i].userId = userId
        /\ Sales[i].date >= (startDay - 365) * 24 }

WindowRecords(userId, productId, startDay, useGlobalSales) ==
    Cardinality(WindowItems(userId, productId, startDay, useGlobalSales))

WindowDays(userId, productId, startDay, useGlobalSales) ==
    Cardinality({ Sales[ij[1]].date \div 24 :
                    ij \in WindowItems(userId, productId, startDay, useGlobalSales) })

\* what the claim lets a product lead to: the error, "" when a fit may start
DataVerdict(userId, productId, startDay, useGlobalSales) ==
    IF WindowRecords(userId, productId, startDay, useGlobalSales) < 10
    THEN TooFewRecords
    ELSE IF WindowDays(userId, productId, startDay, useGlobalSales) < 10
    THEN TooFewDays
    ELSE ""

\* DataVerdict and WindowDays for the users, products and start days of the
\* requests
DataVerdicts ==
    [ userId \in Users, productId \in {"p1", "p2", "p3", "p4"},
      day \in StartDays, useGlobalSales \in BOOLEAN |->
        [ error |-> DataVerdict(userId, productId, day, useGlobalSales),
          days  |-> WindowDays(userId, productId, day, useGlobalSales) ] ]

\* C3: a product with fewer than 10 line items in the window, or with 10 or
\* more on fewer than 10 distinct days, is reported as an error without a
\* call of executePythonScript for it; every call of executePythonScript gets
\* a daily series of at least 10 dates (one entry for each distinct day).
C3_InsufficientDataStopsBeforeFitting ==
    /\ \A i \in 1..Len(trace.pythonCalls) : trace.pythonCalls[i].dataPoints >= 10
    /\ ( /\ req.op \in {"generate", "retrain"}
         /\ trace.salesReads = 1 )
          => LET global == parseBoolean(req.body.useGlobalSales)
                 day == req.body.startDate.v
                 verdict == DataVerdicts[req.user, req.body.productId, day, global].error
             IN IF verdict # ""
                THEN /\ response.status = 500
                     /\ response.error = verdict
                     /\ trace.pythonCalls = <<>>
                     /\ trace.saves = 0
                     /\ response.created = <<>>
                ELSE /\ Len(trace.pythonCalls) = 1
                     /\ trace.pythonCalls[1].dataPoints
                           = DataVerdicts[req.user, req.body.productId, day, global].days
    /\ req.op = "batch"
          => LET day == req.body.startDate.v
                 passed == 1..(batch.next - 1)
                 short == {i \in passed :
                             DataVerdicts[req.user, batch.products[i], day, FALSE].error # ""}
             IN (batch.active \/ response.status = 201)
                   => /\ Len(trace.pythonCalls) = Cardinality(passed \ short)
                      /\ \A i \in short :
                            \E j \in 1..Len(batch.failures) :
                               /\ batch.failures[j].productId = batch.products[i]
                               /\ batch.failures[j].error
                                     = DataVerdicts[req.user, batch.products[i], day, FALSE].error

\* 10 records on 9 days: the request is refused and nothing was fitted
C3_Witness ==
    /\ req.op = "generate"
    /\ req.user = "mgr"
    /\ req.body.productId = "p2"
    /\ WindowRecords("mgr", "p2", req.body.startDate.v, FALSE) = 10
    /\ WindowDays("mgr", "p2", req.body.startDate.v, FALSE) = 9
    /\ response.status = 500
    /\ response.error = TooFewDays
    /\ trace.pythonCalls = <<>>

(***************************************************************************)
(* Claims about the requests that are refused                              *)
(***************************************************************************)

\* the request in req has one of the faults of dates, period or model: a
\* missing start or end date, a period or model outside the allowed values
\* (left out, where the handler has no default for it), a date that does not
\* parse, or a start that is not before the end
IllFormed ==
    LET b == req.body
        defaulted(field) == req.op = "retrain" /\ field = Undefined
    IN /\ req.op \in {"generate", "retrain", "batch"}
       /\ \/ b.startDate = Missing
          \/ b.endDate = Missing
          \/ b.forecastPeriod \notin {"Daily", "Weekly", "Monthly"}
                /\ ~defaulted(b.forecastPeriod)
          \/ b.modelType \notin {"ARIMA", "RandomForest"}
                /\ ~defaulted(b.modelType)
          \/ b.startDate.t \in {"str", "isoweek"}
          \/ b.endDate.t \in {"str", "isoweek"}
          \/ b.startDate.t = "date" /\ b.endDate.t = "date"
                /\ b.startDate.v >= b.endDate.v

\* nothing was read, fitted or stored for the request in req
NothingComputed ==
    /\ trace = NoTrace
    /\ response.created = <<>>
    /\ ~batch.active

\* the request in req asks generateForecast for global scope and comes from a
\* role other than Admin and Owner
UnpermittedGlobal ==
    /\ req.op = "generate"
    /\ req.body.useGlobalSales \in {"bool:true", "true"}
    /\ RoleOf(req.user) \notin {"Admin", "Owner"}

\* the fields of the request in req pass the validators of its route
PassesRoute ==
    LET b == req.body
        given(field, allowed) ==
            \/ field \in allowed
            \/ req.op = "retrain" /\ field = Undefined
    IN /\ req.op = "batch" \/ b.productId # Undefined
       /\ given(b.forecastPeriod, {"Daily", "Weekly", "Monthly"})
       /\ given(b.modelType, {"ARIMA", "RandomForest"})
       /\ b.startDate.t \in {"date", "isoweek"}
       /\ b.endDate.t \in {"date", "isoweek"}
       /\ b.useGlobalSales \in {Undefined, "bool:true", "bool:false", "true", "false", "1", "0"}
       /\ b.scope \in {Undefined, "all", "category"}

\* C6 as claimed: a handler answers every ill-formed request with 400 and
\* has read, fitted and stored nothing
C6_IllFormedAnswered400 ==
    (response.by = "handler" /\ IllFormed)
       => /\ response.status = 400
          /\ NothingComputed

\* C6: a handler answers every ill-formed request with an error and has read,
\* fitted and stored nothing; the status is 400, except that generateForecast
\* answers 403 when the request passes the validators of the route, names a
\* product and asks for global scope from a role other than Admin and Owner
C6_IllFormedRefused ==
    (response.by = "handler" /\ IllFormed)
       => /\ response.status = IF UnpermittedGlobal /\ PassesRoute THEN 403 ELSE 400
          /\ response.error # ""
          /\ NothingComputed

\* an Admin's retrain request whose start is not before its end, and a batch
\* request with a date that does not parse: 400, nothing computed
C6_Witness ==
    /\ response.by = "handler"
    /\ response.status = 400
    /\ NothingComputed
    /\ \/ /\ req.op = "retrain"
          /\ RoleOf(req.user) = "Admin"
          /\ req.body.useGlobalSales = "bool:true"
          /\ req.body.startDate = IsoDate(430)
          /\ req.body.endDate = IsoDate(400)
          /\ response.error = "startDate must be before endDate"
       \/ /\ req.op = "batch"
          /\ req.body.startDate = IsoWeekDate
          /\ response.error = "Invalid date format"

\* global-scope forecasts belong to Admins and Owners, and no forecast a
\* batch created is global
GlobalOnlyForPrivileged ==
    /\ \A i \in 1..Len(forecasts) :
          forecasts[i].dataScope = "global"
             => RoleOf(forecasts[i].userId) \in {"Admin", "Owner"}
    /\ \A i \in 1..Len(response.created) :
          response.created[i].dataScope = "global"
             => /\ RoleOf(req.user) \in {"Admin", "Owner"}
                /\ req.op \in {"generate", "retrain"}
    /\ \A i \in 1..Len(batch.createdForecasts) :
          batch.createdForecasts[i].dataScope = "user"
    /\ req.op = "batch" => trace.pythonCalls = <<>> \/ ~parseBoolean(req.body.useGlobalSales)

\* C7 as claimed: global forecasts only for Admin and Owner, and a
\* global-scope generateForecast request of another role is answered 403
\* with nothing read or fitted
C7_GlobalAnswered403 ==
    /\ GlobalOnlyForPrivileged
    /\ (UnpermittedGlobal /\ response # NoResponse)
          => /\ response.status = 403
             /\ NothingComputed

\* C7: global forecasts only for Admin and Owner, whichever of
\* generateForecast and retrainForecast is used, and none from a batch; a
\* global-scope generateForecast request of another role is refused with
\* nothing read or fitted: with 403, or with 400 when the request does not
\* pass the validators of the route
C7_GlobalRefused ==
    /\ GlobalOnlyForPrivileged
    /\ (UnpermittedGlobal /\ response # NoResponse)
          => /\ response.status =
                   IF response.by = "handler" /\ ~PassesRoute THEN 400 ELSE 403
             /\ response.error # ""
             /\ NothingComputed

\* a Manager's well-formed global-scope request is answered 403 by the
\* handler, while the store holds nothing
C7_Witness ==
    /\ UnpermittedGlobal
    /\ RoleOf(req.user) = "Manager"
    /\ PassesRoute
    /\ ~IllFormed
    /\ response.by = "handler"
    /\ response.status = 403
    /\ NothingComputed

(***************************************************************************)
(* Claims about the forecasts that are stored                              *)
(***************************************************************************)

\* every Forecast document there is: stored, or just created for a response
AllForecasts ==
    {forecasts[i] : i \in 1..Len(forecasts)}
    \cup {response.created[i] : i \in 1..Len(response.created)}
    \cup {batch.createdForecasts[i] : i \in 1..Len(batch.createdForecasts)}

\* the request in req is a generateForecast or retrainForecast answered 201:
\* response.created[1] was made from trace.pythonCalls[1].result
SingleCreated ==
    /\ req.op \in {"generate", "retrain"}
    /\ response.status = 201
    /\ Len(response.created) = 1
    /\ Len(trace.pythonCalls) = 1

\* C8: in every forecast, after any sequence of generateForecast,
\* generateBatchForecasts, retrainForecast and updateForecastSettings, the
\* alert is active exactly when metrics.mape > 20 and the message is "High
\* prediction error" exactly when the alert is active, "" otherwise; a mape
\* that forecast.py left out or gave as a non-number is stored as 0.
C8_AlertFollowsMape ==
    /\ \A f \in AllForecasts :
          /\ f.alert.isActive <=> f.metrics.mape > 20
          /\ f.alert.message = "High prediction error" <=> f.alert.isActive
          /\ f.alert.message = "" <=> ~f.alert.isActive
    /\ SingleCreated
          => LET raw == trace.pythonCalls[1].result.mape
                 made == response.created[1]
             IN /\ raw.t = "num" => made.metrics.mape = raw.v
                /\ raw.t # "num" => made.metrics.mape = 0 /\ ~made.alert.isActive

\* updateForecastSettings has changed the features of a stored forecast whose
\* mape is 25: its alert is still active
C8_Witness ==
    /\ req.op = "settings"
    /\ response.status = 200
    /\ Len(forecasts) >= 1
    /\ forecasts[1].metrics.mape = 25
    /\ forecasts[1].alert = [isActive |-> TRUE, message |-> "High prediction error"]
    /\ forecasts[1].features.seasonality = "Monthly"

\* C9: every prediction of every forecast has
\* 0 <= confidenceLower <= predictedSales <= confidenceUpper
C9_BoundsOrdered ==
    \A f \in AllForecasts :
       \A i \in 1..Len(f.predictions) :
          /\ 0 <= f.predictions[i].confidenceLower
          /\ f.predictions[i].confidenceLower <= f.predictions[i].predictedSales
          /\ f.predictions[i].predictedSales <= f.predictions[i].confidenceUpper

\* C10: a stored bound is the bound forecast.py gave whenever it gave a
\* number, and is predictedSales x 0.9 (lower) or x 1.1 (upper) exactly when
\* the bound is missing or not a number
C10_SuppliedBoundsKept ==
    SingleCreated
       => \A i \in 1..Len(response.created[1].predictions) :
             LET raw == trace.pythonCalls[1].result.predictions[i]
                 made == response.created[1].predictions[i]
             IN /\ made.confidenceLower =
                      IF raw.confidenceLower.t = "num" THEN raw.confidenceLower.v
                      ELSE (made.predictedSales * 9) \div 10
                /\ made.confidenceUpper =
                      IF raw.confidenceUpper.t = "num" THEN raw.confidenceUpper.v
                      ELSE (made.predictedSales * 11) \div 10

(***************************************************************************)
(* Claims about buildForecastDataset and computeInsights                   *)
(***************************************************************************)

\* the positions of calcEntries whose instant lies on the UTC day
EntriesOfDay(day) ==
    {i \in 1..Len(calcEntries) : calcEntries[i].date \div 24 = day}

\* the UTC days on which calcEntries has an entry
DaysOfEntries == {calcEntries[i].date \div 24 : i \in 1..Len(calcEntries)}

\* quantity x price summed over a set of positions of calcEntries
RECURSIVE RevenueAt(_)
RevenueAt(positions) ==
    IF positions = {} THEN 0
    ELSE LET i == CHOOSE x \in positions : TRUE
         IN calcEntries[i].quantity * calcEntries[i].price
               + RevenueAt(positions \ {i})

\* totalAmount summed over the first k entries of a dataset
RECURSIVE AmountUpTo(_, _)
AmountUpTo(dataset, k) ==
    IF k = 0 THEN 0 ELSE dataset[k].totalAmount + AmountUpTo(dataset, k - 1)

\* C11: every entry of the dataset carries the sum of quantity x price over
\* exactly the input entries of its UTC day (entries of one day or of one
\* instant add up), so the dataset's totalAmount values sum to the sum of
\* quantity x price over all input entries
C11_RevenueConserved ==
    calcDataset.done
       => /\ \A k \in 1..Len(calcDataset.value) :
                calcDataset.value[k].totalAmount
                   = RevenueAt(EntriesOfDay(calcDataset.value[k].date))
          /\ AmountUpTo(calcDataset.value, Len(calcDataset.value))
                = RevenueAt(1..Len(calcEntries))

\* two entries of one instant and a third of the same day, built into one entry
C11_Witness ==
    /\ calcDataset.done
    /\ Len(calcEntries) = 3
    /\ calcEntries[1].date = 48 /\ calcEntries[2].date = 48
    /\ calcEntries[1] # calcEntries[2]
    /\ calcEntries[3].date = 48
    /\ Len(calcDataset.value) = 1
    /\ calcDataset.value[1].totalAmount > 90

\* C12: the dataset has exactly one entry per distinct UTC day of the input,
\* in strictly ascending date order whatever the order of the input, and no
\* entry for a day without input
C12_OneEntryPerDayAscending ==
    calcDataset.done
       => /\ {calcDataset.value[k].date : k \in 1..Len(calcDataset.value)} = DaysOfEntries
          /\ Len(calcDataset.value) = Cardinality(DaysOfEntries)
          /\ \A k \in 1..(Len(calcDataset.value) - 1) :
                calcDataset.value[k].date < calcDataset.value[k + 1].date

\* input in descending order with two instants of one day and a gap of days
C12_Witness ==
    /\ calcDataset.done
    /\ Len(calcEntries) = 4
    /\ calcEntries[1].date = 120
    /\ calcEntries[2].date = 48
    /\ calcEntries[3].date = 47
    /\ calcEntries[4].date = 24
    /\ Len(calcDataset.value) = 3

\* C13: demand.purchaseCount of computeInsights is the number of entries of
\* buildForecastDataset on the same input
C13_PurchaseCountIsDatasetLength ==
    (calcDataset.done /\ calcInsights.done)
       => calcInsights.value.demand.purchaseCount = Len(calcDataset.value)

\* several entries per day: fewer days than entries
C13_Witness ==
    /\ calcDataset.done
    /\ calcInsights.done
    /\ Len(calcEntries) = 4
    /\ calcInsights.value.demand.purchaseCount = 2
    /\ \E i, j \in 1..4 : /\ calcEntries[i].date # calcEntries[j].date
                          /\ calcEntries[i].date \div 24 = calcEntries[j].date \div 24

\* C14: computeInsights gives the same insights, the price trend among them,
\* for the same entries in another order
C14_InsightsOrderInvariant ==
    (calcInsights.done /\ calcReordered.done)
       => calcReordered.value = calcInsights.value

\* the prices above 0 of calcEntries, in the order of calcEntries
RECURSIVE PositivePrices(_)
PositivePrices(k) ==
    IF k = 0 THEN <<>>
    ELSE IF calcEntries[k].price > 0
         THEN Append(PositivePrices(k - 1), calcEntries[k].price)
         ELSE PositivePrices(k - 1)

\* the sum of prices[from..to]
RECURSIVE PriceSum(_, _, _)
PriceSum(prices, from, to) ==
    IF from > to THEN 0 ELSE prices[from] + PriceSum(prices, from + 1, to)

\* the trend the rule gives for the price points: with the means of the first
\* and the last floor(n/2) points, "more than 5% above" is
\* 20 x (late - early) > early
TrendByRule(prices) ==
    LET n == Len(prices)
        half == n \div 2
        early == PriceSum(prices, 1, half)
        late == PriceSum(prices, n - half + 1, n)
    IN IF n < 3 THEN "Insufficient data"
       ELSE IF 20 * (late - early) > early THEN "Rising"
       ELSE IF 20 * (early - late) > early THEN "Falling"
       ELSE "Stable"

\* C15: price.trend is "Insufficient data" with fewer than 3 price points
\* (prices above 0) and otherwise "Rising" when the mean of the second half
\* exceeds the mean of the first half by more than 5%, "Falling" when it is
\* lower by more than 5%, and "Stable" in every other case
C15_TrendByHalves ==
    calcInsights.done
       => /\ calcInsights.value.price.trend
                = TrendByRule(PositivePrices(Len(calcEntries)))
          /\ Len(PositivePrices(Len(calcEntries))) >= 3
                => calcInsights.value.price.trend \in {"Rising", "Falling", "Stable"}
          /\ Len(PositivePrices(Len(calcEntries))) < 3
                => calcInsights.value.price.trend = "Insufficient data"

\* prices 20, 20, 21, 21: the second half is exactly 5% above the first
C15_Witness ==
    /\ calcInsights.done
    /\ PositivePrices(Len(calcEntries)) = <<20, 20, 21, 21>>
    /\ calcInsights.value.price.trend = "Stable"

(***************************************************************************)
(* Claims about predictPrice                                               *)
(***************************************************************************)

\* a price request that passed the role middleware, the validators of the
\* route and the checks of the handler: cost > 0 and margin >= 0
PriceAccepted ==
    /\ req.op = "price"
    /\ response.status # 0
    /\ RoleOf(req.user) \in {"Manager", "Admin", "Owner"}
    /\ req.body.productId # Undefined
    /\ req.body.initialCost.t = "num" /\ req.body.initialCost.v > 0
    /\ req.body.profitMargin.t = "num" /\ req.body.profitMargin.v >= 0

\* a <= b for fractions with positive denominators
AtMost(a, b) == a.n * b.d <= b.n * a.d

\* C16: the recommended price of every answered price request lies inside
\* the returned band: priceBand.min <= recommendedPrice <= priceBand.max
C16_PriceInsideBand ==
    (req.op = "price" /\ response.price.given)
       => /\ AtMost(response.price.priceBand.min, response.price.recommendedPrice)
          /\ AtMost(response.price.recommendedPrice, response.price.priceBand.max)

\* the requester's latest Forecast for the product carries no purchase history
NoPurchaseHistory ==
    \E i \in 1..Len(forecasts) :
       /\ forecasts[i].userId = req.user
       /\ forecasts[i].product.productId = req.body.productId
       /\ \A j \in (i + 1)..Len(forecasts) :
             ~(forecasts[j].userId = req.user
                  /\ forecasts[j].product.productId = req.body.productId)
       /\ forecasts[i].insights.demand.purchaseCount = 0

HasForecast ==
    \E i \in 1..Len(forecasts) :
       /\ forecasts[i].userId = req.user
       /\ forecasts[i].product.productId = req.body.productId

\* C18: an accepted price request of a requester without a Forecast for the
\* product is answered 404; a request whose cost is not a number above 0 or
\* whose margin is not a number of at least 0 is answered 400 without a
\* Forecast being looked up; a response with an error carries no price
C18_PriceErrors ==
    (req.op = "price" /\ response.status # 0)
       => /\ (PriceAccepted /\ ~HasForecast)
                => response.status = 404 /\ trace.forecastReads = 1
          /\ (RoleOf(req.user) \in {"Manager", "Admin", "Owner"}
                /\ ~(/\ req.body.initialCost.t = "num" /\ req.body.initialCost.v > 0
                     /\ req.body.profitMargin.t = "num" /\ req.body.profitMargin.v >= 0))
                => response.status = 400 /\ trace.forecastReads = 0
          /\ response.status # 200
                => response.price = NoPrice /\ response.error # ""
          /\ response.status = 200 => PriceAccepted /\ HasForecast

\* mgr asks the price of p1 while only adm has a Forecast for p1
C18_Witness ==
    /\ req.op = "price"
    /\ req.user = "mgr"
    /\ PriceAccepted
    /\ Len(forecasts) = 1
    /\ forecasts[1].userId = "adm"
    /\ forecasts[1].product.productId = req.body.productId
    /\ response.status = 404

(***************************************************************************)
(* Claims about the lookback window and about stored forecasts             *)
(***************************************************************************)

\* the line items of a product dated within the 365 days before the start
\* day: not before start - 365 days, not on or after the start day
YearBeforeItems(userId, productId, startDay, useGlobalSales) ==
    { <<i, j>> \in (1..Len(Sales)) \X (1..2) :
        /\ j <= Len(Sales[i].items)
        /\ Sales[i].items[j].productId = productId
        /\ useGlobalSales \/ Sales[i].userId = userId
        /\ Sales[i].date >= (startDay - 365) * 24
        /\ Sales[i].date < startDay * 24 }

RECURSIVE UnitsOf(_)
UnitsOf(items) ==
    IF items = {} THEN 0
    ELSE LET ij == CHOOSE x \in items : TRUE
         IN Sales[ij[1]].items[ij[2]].quantity + UnitsOf(items \ {ij})

\* the days and the units of YearBeforeItems for the users, products and
\* start days of the requests
YearBefore ==
    [ userId \in Users, productId \in {"p1", "p2", "p3", "p4"},
      day \in StartDays, useGlobalSales \in BOOLEAN |->
        LET items == YearBeforeItems(userId, productId, day, useGlobalSales)
        IN [ days  |-> Cardinality({Sales[ij[1]].date \div 24 : ij \in items}),
             units |-> UnitsOf(items) ] ]

\* C19: the daily series handed to executePythonScript by generateForecast
\* and retrainForecast, and the insights of the Forecast made from it, are
\* built only from the sales dated within the year before the start date: none
\* dated before start - 1 year, none dated on or after the start date
C19_TrainingWithinLookback ==
    (req.op \in {"generate", "retrain"} /\ Len(trace.pythonCalls) = 1)
       => LET window == YearBefore[req.user, req.body.productId, req.body.startDate.v,
                                   parseBoolean(req.body.useGlobalSales)]
          IN /\ trace.pythonCalls[1].dataPoints = window.days
             /\ \A i \in 1..Len(response.created) :
                   response.created[i].insights.demand.totalUnits = window.units

\* the fields of a Forecast that are fixed once it is stored
FixedFields(forecast) ==
    << forecast.predictions, forecast.metrics, forecast.alert, forecast.insights,
       forecast.forecastPeriod, forecast.modelType, forecast.startDate,
       forecast.endDate, forecast.dataScope, forecast.product >>

\* C20: no step of generateForecast, generateBatchForecasts, retrainForecast,
\* updateForecastSettings or predictPrice removes a stored Forecast or changes
\* its predictions, metrics, alert, insights, forecastPeriod, modelType,
\* startDate, endDate, dataScope or product; generation and retraining only
\* append; updateForecastSettings and predictPrice store nothing and never
\* call executePythonScript
C20_StoredForecastsImmutable ==
    [][ /\ Len(forecasts') >= Len(forecasts)
        /\ \A i \in 1..Len(forecasts) :
              FixedFields(forecasts'[i]) = FixedFields(forecasts[i])
        /\ (req'.op \in {"generate", "retrain", "batch"})
              => SubSeq(forecasts', 1, Len(forecasts)) = forecasts
        /\ (req'.op \in {"settings", "price"})
              => /\ Len(forecasts') = Len(forecasts)
                 /\ trace'.pythonCalls = <<>>
                 /\ trace'.saves = 0 ]_vars

\* updateForecastSettings has rewritten the features of two stored Forecasts,
\* the second appended by retrainForecast or a later generation
C20_Witness ==
    /\ Len(forecasts) = 2
    /\ req.op = "settings"
    /\ response.status = 200
    /\ forecasts[1].userId = req.user
    /\ forecasts[1].features.seasonality = RequestedFeatures.seasonality
    /\ forecasts[1].features.seasonality # "Weekly"
    /\ forecasts[1].predictions # <<>>

(***************************************************************************)
(* Claims about the retry wait and the processes of executePythonScript    *)
(***************************************************************************)

\* the attempts whose promise was rejected
FailedAttempts == {k \in 1..Len(runs) : runs[k].promise.state = "rejected"}

\* C25: a wait separates every failed attempt from the next one, 1000 ms
\* after the 1st failure and 2000 ms after the 2nd: attempt k+1 starts only
\* in the step that ends the wait following failed attempt k, and no wait is
\* pending after the last failed attempt or after a success
C25_BackoffBetweenAttempts ==
    /\ [](/\ execPc = "backoff"
             => /\ Len(runs) \in {1, 2}
                /\ FailedAttempts = 1..Len(runs)
                /\ backoffMs = 1000 * Len(runs)
          /\ execPc \in {"returned", "thrown", "awaiting"} => backoffMs = 0
          /\ execPc = "thrown" => Len(runs) = 3)
    /\ [][ (Len(runs') > Len(runs) /\ Len(runs) >= 1)
              => /\ execPc = "backoff"
                 /\ backoffMs = 1000 * Len(runs)
                 /\ backoffMs' = 0
                 /\ Len(runs') = Len(runs) + 1 ]_vars

\* the wait after the 2nd failed attempt is pending
C25_Witness ==
    /\ execPc = "backoff"
    /\ Len(runs) = 2
    /\ backoffMs = 2000
    /\ runs[1].promise.value = "Python script timed out after 30 seconds"

\* C26: at most one forecast.py process of an invocation is running at any
\* time: the process of an attempt that timed out has ended before the next
\* attempt's process is started
C26_OneProcessAtATime ==
    Cardinality({k \in 1..Len(runs) : runs[k].status = "running"}) <= 1

(***************************************************************************)
(* Claims about what a failed forecast leaves behind                       *)
(***************************************************************************)

WithoutPredictions(result) ==
    result.kind = "return" /\ (~result.isArray \/ result.predictions = <<>>)

\* C24: every stored Forecast has at least one prediction: a result whose
\* predictions are missing, not a list or empty is answered 500 by
\* generateForecast and retrainForecast with nothing stored, and is recorded
\* as a failure of the product by generateBatchForecasts
C24_PredictionsNeverEmpty ==
    /\ \A f \in AllForecasts : f.predictions # <<>>
    /\ (req.op \in {"generate", "retrain"} /\ Len(trace.pythonCalls) = 1
          /\ WithoutPredictions(trace.pythonCalls[1].result))
          => /\ response.status = 500
             /\ response.error = "Invalid forecast predictions"
             /\ trace.saves = 0
             /\ response.created = <<>>
    /\ req.op = "batch"
          => /\ Cardinality({i \in 1..Len(trace.pythonCalls) :
                               WithoutPredictions(trace.pythonCalls[i].result)})
                   = Cardinality({j \in 1..Len(batch.failures) :
                        batch.failures[j].error
                           = "Python script returned empty or invalid predictions"})
             /\ trace.saves = Len(batch.createdForecasts)

\* a batch recorded a product whose fit returned an empty list of predictions
C24_Witness ==
    /\ req.op = "batch"
    /\ Len(trace.pythonCalls) = 1
    /\ trace.pythonCalls[1].result.isArray
    /\ trace.pythonCalls[1].result.predictions = <<>>
    /\ Len(batch.failures) >= 1
    /\ batch.createdForecasts = <<>>

(***************************************************************************)
(* Claims about the reach of updateForecastSettings                        *)
(***************************************************************************)

\* C27: an accepted updateForecastSettings changes, in each Forecast of the
\* caller, only the feature fields named in the request: every other feature
\* field keeps the value that Forecast had; a request with a key outside
\* seasonality, promotion, laggedSales, economicTrend is answered 400 and
\* leaves every Forecast as it was
C27_OnlyNamedFeaturesChange ==
    [][ (req'.op = "settings" /\ response.status = 0 /\ response'.status # 0)
           => /\ Len(forecasts') = Len(forecasts)
              /\ \A i \in 1..Len(forecasts) :
                    LET keys == req'.body.featureKeys
                        before == forecasts[i].features
                        after == forecasts'[i].features
                    IN /\ "seasonality" \notin keys => after.seasonality = before.seasonality
                       /\ "promotion" \notin keys => after.promotion = before.promotion
                       /\ "laggedSales" \notin keys => after.laggedSales = before.laggedSales
                       /\ "economicTrend" \notin keys
                             => after.economicTrend = before.economicTrend
              /\ (req'.body.featureKeys
                     \ {"seasonality", "promotion", "laggedSales", "economicTrend"} # {}
                    /\ RoleOf(req'.user) \in {"Admin", "Owner"}
                    /\ \E i \in 1..Len(forecasts) : forecasts[i].userId = req'.user)
                    => response'.status = 400 /\ forecasts' = forecasts ]_vars

\* C28: the price recommended to an accepted request is above the cost of
\* the request: recommendedPrice > initialCost, expectedMarginPerUnit > 0
C28_PriceAboveCost ==
    (req.op = "price" /\ response.price.given)
       => req.body.initialCost.v * response.price.recommendedPrice.d
             < response.price.recommendedPrice.n

(***************************************************************************)
(* Claims about the isolation of owners                                    *)
(***************************************************************************)

\* the Forecasts of a collection that belong to the user, oldest first
RECURSIVE OwnedBy(_, _)
OwnedBy(stored, user) ==
    IF stored = <<>> THEN <<>>
    ELSE IF Head(stored).userId = user
         THEN <<Head(stored)>> \o OwnedBy(Tail(stored), user)
         ELSE OwnedBy(Tail(stored), user)

\* the Forecasts of the requester that a list request asks for, oldest first
RECURSIVE AskedFor(_)
AskedFor(owned) ==
    IF owned = <<>> THEN <<>>
    ELSE IF /\ req.body.forecastPeriod \in {Undefined, Head(owned).forecastPeriod}
            /\ req.body.productId \in {Undefined, Head(owned).product.productId}
         THEN <<Head(owned)>> \o AskedFor(Tail(owned))
         ELSE AskedFor(Tail(owned))

\* the requester's Forecasts for the product of a price request, oldest first
RECURSIVE OfProduct(_)
OfProduct(owned) ==
    IF owned = <<>> THEN <<>>
    ELSE IF Head(owned).product.productId = req.body.productId
         THEN <<Head(owned)>> \o OfProduct(Tail(owned))
         ELSE OfProduct(Tail(owned))

\* C29: a request changes no Forecast of another user, and what it answers
\* is determined by the requester's own Forecasts: the list holds only
\* Forecasts of the requester and counts all those asked for, the price is
\* computed from the requester's newest Forecast of the product, and the
\* features written by updateForecastSettings come from the request and the
\* requester's first Forecast
C29_OwnersIsolated ==
    /\ [][ \A u \in Users :
              req'.user # u => OwnedBy(forecasts', u) = OwnedBy(forecasts, u) ]_vars
    /\ []( (req.op = "list" /\ response.status = 200)
              => /\ \A i \in 1..Len(response.listed) :
                       response.listed[i].userId = req.user
                 /\ response.total = Len(AskedFor(OwnedBy(forecasts, req.user)))
                 /\ req.body.page.t = "undef" /\ req.body.limit.t = "undef"
                       => Len(response.listed) = response.total )
    /\ []( (req.op = "price" /\ response.status # 0)
              => LET mine == OfProduct(OwnedBy(forecasts, req.user))
                 IN /\ response.price.given => mine # <<>>
                    /\ response.price.given
                          => response.price
                                = RecommendPrice(mine[Len(mine)], req.body.initialCost.v,
                                                 req.body.profitMargin.v).price
                    /\ (mine = <<>> /\ RoleOf(req.user) # "Planner") => response.status = 404 )
    /\ [][ (req'.op = "settings" /\ response.status = 0 /\ response'.status = 200)
              => LET mine == OwnedBy(forecasts, req'.user)
                     after == OwnedBy(forecasts', req'.user)
                 IN \A i \in 1..Len(after) :
                       \A k \in {"seasonality", "promotion", "laggedSales", "economicTrend"} :
                          after[i].features[k]
                             = IF k \in req'.body.featureKeys
                               THEN RequestedFeatures[k] ELSE mine[1].features[k] ]_vars

\* the Owner is given a price from the Owner's Forecast of p1 while the
\* Admin's newer Forecast of p1, with other predictions, is stored after it
C29_Witness ==
    /\ req.op = "price"
    /\ req.user = "own"
    /\ response.price.given
    /\ Len(forecasts) = 2
    /\ forecasts[1].userId = "own"
    /\ forecasts[2].userId = "adm"
    /\ forecasts[2].product.productId = req.body.productId
    /\ forecasts[1].predictions # forecasts[2].predictions

(***************************************************************************)
(* Claims about subscriptions                                              *)
(***************************************************************************)

\* the checkout session that was given this reference belongs to this user
IssuedTo(txRef, user) ==
    \E k \in 1..Len(chapa) : chapa[k].txRef = txRef /\ txRef.user = user

\* C30: a subscription becomes active only through a verification of the
\* reference that createCheckoutSession issued to the same user and stored in
\* that user's subscription; and a verification that does not answer with
\* success leaves status, plan and period of the requester as they were.
C30_ActiveOnlyForOwnReference ==
    [][\A u \in PayUsers :
         /\ (subscriptions[u].status # "active" /\ subscriptions'[u].status = "active")
               => /\ IssuedTo(subscriptions'[u].chapaTxRef, u)
                  /\ subscriptions[u].chapaTxRef = subscriptions'[u].chapaTxRef
         /\ (response'.by = "verifyPayment" /\ response'.status # 200)
               => /\ subscriptions'[u].status = subscriptions[u].status
                  /\ subscriptions'[u].plan = subscriptions[u].plan
                  /\ subscriptions'[u].currentPeriodStart = subscriptions[u].currentPeriodStart
                  /\ subscriptions'[u].currentPeriodEnd = subscriptions[u].currentPeriodEnd]_vars

(***************************************************************************)
(* Claims about generations that overlap                                   *)
(***************************************************************************)

\* the two generations, each with the closure of its executePythonScript
InFlight ==
    { [gen |-> current, closure |-> Closure],
      [gen |-> parked, closure |-> parked.closure] }

\* the attempts of an invocation whose promise was rejected
RejectedRuns(closure) ==
    {k \in 1..Len(closure.runs) : closure.runs[k].promise.state = "rejected"}

\* the generations that have saved their Forecast
SavedGenerations == {g \in InFlight : g.gen.status = 201}

Containing(items) ==
    Cardinality({k \in 1..Len(transactions) : items \subseteq transactions[k]})

\* the rules of the results that are stored
StoredRules == UNION { baskets[i].rules : i \in 1..Len(baskets) }

\* C22: in every stored MarketBasketResult every rule has antecedents and
\* consequents with no product in common, and its confidence is
\* support(antecedents with consequents) / support(antecedents), each support
\* being (transactions containing all the items) / (all transactions).
C22_RulesWellFormed ==
    \A rule \in StoredRules :
        LET both == Containing(rule.antecedents \cup rule.consequents)
            ante == Containing(rule.antecedents)
        IN /\ rule.antecedents \cap rule.consequents = {}
           /\ rule.antecedents # {} /\ rule.consequents # {}
           /\ ante > 0
           /\ rule.confidence.n * ante = both * rule.confidence.d
           /\ rule.support.n * Len(transactions) = both * rule.support.d

\* a result is stored with a rule that holds in half of the sales that contain
\* its antecedent, and another that holds in all of them
C22_Witness ==
    /\ \E rule \in StoredRules : rule.confidence = Q(1, 2)
    /\ \E rule \in StoredRules :
          rule.confidence = Q(1, 1) /\ Cardinality(rule.antecedents) = 2

====
